---- MODULE Spec2Model ----
(***************************************************************************)
(* Model of the license-registry core:                                     *)
(*   - the governance-diff comparator compareRegistries (Verifier),        *)
(*   - the multi-gateway fetch layer IpfsGateway.fetch,                    *)
(*   - the chain reconstructor useRegistry, in its backward-chain and its  *)
(*     inline variant,                                                     *)
(*   - the entry verifier useEntryVerification,                            *)
(*   - the library functions prepareEntryForSigning, parseContentUri,      *)
(*     formatContentUri and decodeContenthash.                             *)
(* Each part has its own specification (SpecCompare, SpecFetch,            *)
(* SpecRegistry and SpecOverlap, SpecVerify, SpecLib); the variables of    *)
(* the other parts stay at their initial values.                           *)
(***************************************************************************)
EXTENDS Integers, Sequences, FiniteSets, TLC

VARIABLES
    current,        \* currentManifest handed to compareRegistries
    proposed,       \* proposedManifest (registry.json found at the proposed CID)
    edits,          \* number of differences introduced into proposed so far
    licenseFetch,   \* outcome of fetchLicenseText for each new entry, in order
    result,         \* ComparisonResult returned by compareRegistries, or NoResult
    gateways,       \* IpfsGateway.gateways
    fHash,          \* hash argument of the running fetch call
    fPhase,         \* position of the fetch call
    fIdx,           \* index of the gateway the for-loop is at
    fErrors,        \* the local errors array of fetch
    fRequests,      \* every HTTP request issued by the call, in order
    fOutcome,       \* what the call returned or threw
    fTimers,        \* attempts whose setTimeout is armed (not fired, not cleared)
    variant,        \* which useRegistry is mounted: "chain" or "inline"
    ensName,        \* ensNameOverride ?? getConfiguredEnsName(); "" when none
    contentRefOverride, \* the contentRefOverride argument, or NoRef
    devCid,         \* import.meta.env.VITE_REGISTRY_CID; "" when unset
    site,           \* the files published under the content root
    state,          \* useState<RegistryState>
    entryChain,     \* useState<LicenseEntry[]>
    contentRef,     \* useState<ContentReference | null>
    calls,          \* the invocations of fetchRegistry, in the order they started
    vEntry,         \* the entry argument of useEntryVerification, or NoValue
    vPc,            \* position of the verify call
    verifying,      \* useState(false)
    verification,   \* useState<ChainVerificationResult | null>(null)
    vChecks,        \* the local checks array of verify
    licenseText,    \* what the license text request of verify settled with
    libFn,          \* the library function under call
    libArg,         \* its argument
    libRet          \* what it returned or threw, NotCalled before the call

cmpVars == <<current, proposed, edits, licenseFetch, result>>
fetchVars == <<gateways, fHash, fPhase, fIdx, fErrors, fRequests, fOutcome, fTimers>>
verifyVars == <<vEntry, vPc, verifying, verification, vChecks, licenseText>>
libVars == <<libFn, libArg, libRet>>
hookVars == <<variant, ensName, contentRefOverride, devCid, site,
              state, entryChain, contentRef, calls, verifyVars, libVars>>
vars == <<current, proposed, edits, licenseFetch, result,
          gateways, fHash, fPhase, fIdx, fErrors, fRequests, fOutcome, fTimers,
          variant, ensName, contentRefOverride, devCid, site,
          state, entryChain, contentRef, calls,
          vEntry, vPc, verifying, verification, vChecks, licenseText,
          libFn, libArg, libRet>>

(***************************************************************************)
(* Bounds of the model                                                     *)
(***************************************************************************)
MaxVersion == 3
MaxEdits == 2
MaxGateways == 4

(***************************************************************************)
(* Data                                                                    *)
(***************************************************************************)
REGISTRY_SCHEMA == "commonground-license-registry/v1"
ENTRY_SCHEMA == "commonground-license-entry/v1"

Schemas == {REGISTRY_SCHEMA, "other-registry/v2"}
Names == {"License Registry", "Renamed Registry"}
Dates == {"2025-01-01", "2026-01-01"}
Spdx == {"MIT", "Apache-2.0"}
Paths == {"licenses/a.txt", "licenses/b.txt"}
Texts == {"text A", "text B"}
Hashes == {"aa", "AA"}
Versions == 1..MaxVersion

NoResult == [none |-> TRUE]

\* no ContentReference (undefined / null)
NoRef == [protocol |-> "none", hash |-> ""]

\* useEntryVerification before verify is called
InitVerifyIdle ==
    /\ vEntry = [none |-> TRUE]
    /\ vPc = "idle"
    /\ verifying = FALSE
    /\ verification = [none |-> TRUE]
    /\ vChecks = <<>>
    /\ licenseText = [none |-> TRUE]

NotCalled == [called |-> FALSE]

\* no library function under call
InitLibIdle ==
    /\ libFn = "none"
    /\ libArg = [none |-> TRUE]
    /\ libRet = NotCalled

\* the hooks before they are mounted
InitHookIdle ==
    /\ InitVerifyIdle
    /\ InitLibIdle
    /\ variant = "chain"
    /\ ensName = ""
    /\ contentRefOverride = NoRef
    /\ devCid = ""
    /\ site = [none |-> TRUE]
    /\ state = [status |-> "loading"]
    /\ entryChain = <<>>
    /\ contentRef = NoRef
    /\ calls = <<>>

KeepCase(h) == h

\* String.prototype.toLowerCase on the hex strings of the model
ToLowerCase(h) ==
    IF h = "AA" THEN "aa"
    ELSE IF h \in {"BB", "Bb"} THEN "bb"
    ELSE h

\* sha256 returns lowercase hex (arrayBufferToHex); distinct texts, distinct digests
Sha256(text) == IF text = "text A" THEN "aa" ELSE "bb"

VerifyHashCaseSensitive(content, expectedHash) ==
    Sha256(content) = expectedHash

VerifyHash(content, expectedHash) ==
    ToLowerCase(Sha256(content)) = ToLowerCase(expectedHash)

\* The entry a well-behaved publisher writes for version v
Entry(v) ==
    [schema |-> ENTRY_SCHEMA,
     version |-> v,
     created_at |-> "2025-01-01T00:00:00Z",
     effective_date |-> "2025-01-01",
     license |-> [spdx |-> "MIT", text_path |-> "licenses/a.txt", text_sha256 |-> "aa"]]

Front(s) == SubSeq(s, 1, Len(s) - 1)
Last(s) == s[Len(s)]

(***************************************************************************)
(* JavaScript Map: insertion-ordered, set() on a present key keeps its     *)
(* position and replaces the value                                         *)
(***************************************************************************)
MapHas(m, k) == \E i \in 1..Len(m) : m[i].key = k

MapGet(m, k) == m[CHOOSE i \in 1..Len(m) : m[i].key = k].value

\* a map in which the first value set for a key is kept
MapSetKeepFirst(m, k, v) ==
    IF MapHas(m, k) THEN m ELSE Append(m, [key |-> k, value |-> v])

MapSet(m, k, v) ==
    IF MapHas(m, k)
    THEN [i \in 1..Len(m) |-> IF m[i].key = k THEN [key |-> k, value |-> v] ELSE m[i]]
    ELSE Append(m, [key |-> k, value |-> v])

RECURSIVE EntriesByVersion(_)
EntriesByVersion(entries) ==
    IF entries = <<>> THEN <<>>
    ELSE MapSet(EntriesByVersion(Front(entries)), Last(entries).version, Last(entries))

MapValues(m) == [i \in 1..Len(m) |-> m[i].value]

(***************************************************************************)
(* compareRegistries                                                       *)
(***************************************************************************)
CheckId(name) == <<name, 0>>
HashCheckId(version) == <<"hash_v", version>>
StartsWithHash(id) == id[1] = "hash_v"

Check(name, passed) == [id |-> CheckId(name), passed |-> passed, error |-> "undefined"]

DifferencesSpdxOnly(currentEntry, proposedEntry) ==
    IF currentEntry.license.spdx # proposedEntry.license.spdx
    THEN <<"license.spdx">> ELSE <<>>

Differences(currentEntry, proposedEntry) ==
    (IF currentEntry.effective_date # proposedEntry.effective_date
     THEN <<"effective_date">> ELSE <<>>)
    \o (IF currentEntry.license.spdx # proposedEntry.license.spdx
        THEN <<"license.spdx">> ELSE <<>>)
    \o (IF currentEntry.license.text_sha256 # proposedEntry.license.text_sha256
        THEN <<"license.text_sha256">> ELSE <<>>)

RemovedEntriesNone(currentMap, proposedMap) == <<>>

RemovedEntries(currentMap, proposedMap) ==
    MapValues(SelectSeq(currentMap, LAMBDA p : ~MapHas(proposedMap, p.key)))

ModifiedEntries(currentMap, proposedMap) ==
    LET both == SelectSeq(currentMap, LAMBDA p :
                    /\ MapHas(proposedMap, p.key)
                    /\ Differences(p.value, MapGet(proposedMap, p.key)) # <<>>)
    IN [i \in 1..Len(both) |->
            [old |-> both[i].value,
             new |-> MapGet(proposedMap, both[i].key),
             differences |-> Differences(both[i].value, MapGet(proposedMap, both[i].key))]]

NewEntriesAll(currentMap, proposedMap) == MapValues(proposedMap)

NewEntries(currentMap, proposedMap) ==
    MapValues(SelectSeq(proposedMap, LAMBDA p : ~MapHas(currentMap, p.key)))

\* One iteration of the hash loop: outcome is what fetchLicenseText gave,
\* "fetch_failed" when it threw (all gateways failed, or the body read failed)
HashCheckFetchOptional(entry, outcome) ==
    [id |-> HashCheckId(entry.version), passed |-> TRUE, error |-> "undefined"]

HashCheck(entry, outcome) ==
    IF outcome = "fetch_failed"
    THEN [id |-> HashCheckId(entry.version), passed |-> FALSE,
          error |-> "Failed to fetch license"]
    ELSE LET hashValid == VerifyHash(outcome, entry.license.text_sha256)
         IN [id |-> HashCheckId(entry.version), passed |-> hashValid,
             error |-> IF hashValid THEN "undefined" ELSE "Hash mismatch"]

IsCriticalAll(c) == TRUE

IsCritical(c) ==
    \/ c.id = CheckId("schema")
    \/ c.id = CheckId("entries_preserved")
    \/ c.id = CheckId("entries_unmodified")
    \/ StartsWithHash(c.id)

SummaryModifiedFirst(valid, newEntries, removedEntries, modifiedEntries) ==
    IF valid /\ Len(newEntries) > 0
    THEN [text |-> "Valid update with N new", count |-> Len(newEntries),
          noun |-> IF Len(newEntries) = 1 THEN "entry" ELSE "entries"]
    ELSE IF valid
    THEN [text |-> "Valid (no changes)", count |-> 0, noun |-> ""]
    ELSE IF Len(modifiedEntries) > 0
    THEN [text |-> "Invalid: N entries modified", count |-> Len(modifiedEntries), noun |-> ""]
    ELSE IF Len(removedEntries) > 0
    THEN [text |-> "Invalid: N entries removed", count |-> Len(removedEntries), noun |-> ""]
    ELSE [text |-> "Invalid: verification failed", count |-> 0, noun |-> ""]

Summary(valid, newEntries, removedEntries, modifiedEntries) ==
    IF valid /\ Len(newEntries) > 0
    THEN [text |-> "Valid update with N new", count |-> Len(newEntries),
          noun |-> IF Len(newEntries) = 1 THEN "entry" ELSE "entries"]
    ELSE IF valid
    THEN [text |-> "Valid (no changes)", count |-> 0, noun |-> ""]
    ELSE IF Len(removedEntries) > 0
    THEN [text |-> "Invalid: N entries removed", count |-> Len(removedEntries), noun |-> ""]
    ELSE IF Len(modifiedEntries) > 0
    THEN [text |-> "Invalid: N entries modified", count |-> Len(modifiedEntries), noun |-> ""]
    ELSE [text |-> "Invalid: verification failed", count |-> 0, noun |-> ""]

\* outcomes[i] is the outcome of fetchLicenseText for the i-th new entry
CompareRegistries(currentManifest, proposedManifest, outcomes) ==
    LET currentEntriesByVersion == EntriesByVersion(currentManifest.entries)
        proposedEntriesByVersion == EntriesByVersion(proposedManifest.entries)
        removedEntries == RemovedEntries(currentEntriesByVersion, proposedEntriesByVersion)
        modifiedEntries == ModifiedEntries(currentEntriesByVersion, proposedEntriesByVersion)
        newEntries == NewEntries(currentEntriesByVersion, proposedEntriesByVersion)
        checks ==
            << Check("schema", proposedManifest.schema = REGISTRY_SCHEMA),
               Check("version_progression",
                     proposedManifest.current_version >= currentManifest.current_version),
               Check("entries_preserved", Len(removedEntries) = 0),
               Check("entries_unmodified", Len(modifiedEntries) = 0),
               Check("new_entries", TRUE) >>
            \o [i \in 1..Len(newEntries) |-> HashCheck(newEntries[i], outcomes[i])]
            \o << Check("name_consistent", currentManifest.name = proposedManifest.name) >>
        criticalChecks == SelectSeq(checks, IsCritical)
        valid == \A i \in 1..Len(criticalChecks) : criticalChecks[i].passed
    IN [valid |-> valid,
        summary |-> Summary(valid, newEntries, removedEntries, modifiedEntries),
        checks |-> checks,
        newEntries |-> newEntries,
        modifiedEntries |-> modifiedEntries,
        removedEntries |-> removedEntries]

\* number of new entries, i.e. of fetchLicenseText calls the comparison makes
NumNew(currentManifest, proposedManifest) ==
    Len(NewEntries(EntriesByVersion(currentManifest.entries),
                   EntriesByVersion(proposedManifest.entries)))

(***************************************************************************)
(* The inputs of a comparison.  current is a manifest the viewer has       *)
(* loaded (valid schema, at least one entry); proposed is whatever         *)
(* registry.json the proposed CID holds: it starts as a copy of current    *)
(* and departs from it by at most MaxEdits changes.                        *)
(***************************************************************************)
Outcomes == {"fetch_failed"} \cup Texts

\* A second definition of version 1, for manifests listing a version twice
AltEntry(v) == [Entry(v) EXCEPT !.license.spdx = "Apache-2.0"]

CurrentEntryLists ==
    {[i \in 1..n |-> Entry(n + 1 - i)] : n \in 1..MaxVersion}
    \cup {<<Entry(1), Entry(2)>>, <<Entry(3), Entry(1)>>,
          <<Entry(2), AltEntry(1), Entry(1)>>, <<Entry(1), AltEntry(1)>>}

CurrentManifests ==
    {[schema |-> REGISTRY_SCHEMA, name |-> "License Registry",
      current_version |-> es[1].version, entries |-> es] : es \in CurrentEntryLists}

RemoveAt(s, i) == SubSeq(s, 1, i - 1) \o SubSeq(s, i + 1, Len(s))

InitFetchIdle ==
    /\ gateways = <<>>
    /\ fHash = "none"
    /\ fPhase = "idle"
    /\ fIdx = 0
    /\ fErrors = <<>>
    /\ fRequests = <<>>
    /\ fOutcome = [kind |-> "none"]
    /\ fTimers = {}

InitCompare ==
    /\ current \in CurrentManifests
    /\ proposed = current
    /\ edits = 0
    /\ licenseFetch = <<>>
    /\ result = NoResult
    /\ InitHookIdle
    /\ InitFetchIdle

Editing ==
    /\ result = NoResult
    /\ edits < MaxEdits
    /\ edits' = edits + 1
    /\ UNCHANGED <<current, licenseFetch, result>>
    /\ UNCHANGED <<fetchVars, hookVars>>

ProposeRemove ==
    /\ Editing
    /\ \E i \in 1..Len(proposed.entries) :
        proposed' = [proposed EXCEPT !.entries = RemoveAt(@, i)]

ProposeModify ==
    /\ Editing
    /\ \E i \in 1..Len(proposed.entries) :
        \/ \E d \in Dates \ {proposed.entries[i].effective_date} :
            proposed' = [proposed EXCEPT !.entries[i].effective_date = d]
        \/ \E x \in Spdx \ {proposed.entries[i].license.spdx} :
            proposed' = [proposed EXCEPT !.entries[i].license.spdx = x]
        \/ \E h \in Hashes \ {proposed.entries[i].license.text_sha256} :
            proposed' = [proposed EXCEPT !.entries[i].license.text_sha256 = h]
        \/ \E p \in Paths \ {proposed.entries[i].license.text_path} :
            proposed' = [proposed EXCEPT !.entries[i].license.text_path = p]
ProposeAdd ==
    /\ Editing
    /\ \E v \in Versions, h \in Hashes :
        LET e == [Entry(v) EXCEPT !.license.text_sha256 = h]
        IN \/ proposed' = [proposed EXCEPT !.entries = <<e>> \o @]
           \/ proposed' = [proposed EXCEPT !.entries = Append(@, e)]

ProposeHeader ==
    /\ Editing
    /\ \/ \E n \in Names \ {proposed.name} : proposed' = [proposed EXCEPT !.name = n]
       \/ \E s \in Schemas \ {proposed.schema} : proposed' = [proposed EXCEPT !.schema = s]
       \/ \E v \in Versions \ {proposed.current_version} :
            proposed' = [proposed EXCEPT !.current_version = v]

\* handleCompare calls compareRegistries once; every fetchLicenseText it
\* makes may fail or return any text
Compare ==
    /\ result = NoResult
    /\ \E outcomes \in [1..NumNew(current, proposed) -> Outcomes] :
        /\ licenseFetch' = outcomes
        /\ result' = CompareRegistries(current, proposed, outcomes)
    /\ UNCHANGED <<current, proposed, edits>>
    /\ UNCHANGED <<fetchVars, hookVars>>

NextCompare ==
    \/ ProposeRemove
    \/ ProposeModify
    \/ ProposeAdd
    \/ ProposeHeader
    \/ Compare

SpecCompare == InitCompare /\ [][NextCompare]_vars

(***************************************************************************)
(* IpfsGateway.fetch: one call, step by step.  A gateway origin is a       *)
(* number of GatewayPool; this.gateways is any list of distinct origins.   *)
(***************************************************************************)
GatewayPool == 1..MaxGateways
CidPool == {"bafyA", "bafyB"}
HttpStatuses == {200, 404}

\* Response.ok
ResponseOk(status) == status >= 200 /\ status <= 299

InjectiveSeqs(S) ==
    UNION {{s \in [1..n -> S] : \A i, j \in 1..n : i # j => s[i] # s[j]} :
           n \in 0..Cardinality(S)}

NoOutcome == [kind |-> "none"]

InitFetch ==
    /\ gateways \in InjectiveSeqs(GatewayPool)
    /\ fHash = "none"
    /\ fPhase = "idle"
    /\ fIdx = 0
    /\ fErrors = <<>>
    /\ fRequests = <<>>
    /\ fOutcome = NoOutcome
    /\ fTimers = {}
    /\ current = [none |-> TRUE]
    /\ proposed = [none |-> TRUE]
    /\ edits = 0
    /\ licenseFetch = <<>>
    /\ result = NoResult
    /\ InitHookIdle

\* fetch(hash, path): errors = [], the for-loop starts at the first gateway
FetchCall ==
    /\ fPhase = "idle"
    /\ \E h \in CidPool : fHash' = h
    /\ fPhase' = "loop"
    /\ fIdx' = 1
    /\ fErrors' = <<>>
    /\ fRequests' = <<>>
    /\ UNCHANGED <<gateways, fOutcome, fTimers>>
    /\ UNCHANGED <<cmpVars, hookVars>>

\* how the request in flight ended, noted in the request log
Pending == [kind |-> "pending", status |-> 0]
Responded(status) == [kind |-> "response", status |-> status]
Rejected == [kind |-> "rejected", status |-> 0]
Aborted == [kind |-> "aborted", status |-> 0]

Answered(answer) == [fRequests EXCEPT ![Len(fRequests)].answer = answer]

\* loop body up to the await: build the URL, arm the timer, issue the request
IssueRequestRestart ==
    /\ fPhase = "loop"
    /\ fIdx <= Len(gateways)
    /\ fRequests' = Append(fRequests, [gateway |-> gateways[1], hash |-> fHash, answer |-> Pending])
    /\ fTimers' = fTimers \cup {fIdx}
    /\ fPhase' = "waiting"
    /\ UNCHANGED <<gateways, fHash, fIdx, fErrors, fOutcome>>
    /\ UNCHANGED <<cmpVars, hookVars>>

IssueRequest ==
    /\ fPhase = "loop"
    /\ fIdx <= Len(gateways)
    /\ fRequests' = Append(fRequests, [gateway |-> gateways[fIdx], hash |-> fHash, answer |-> Pending])
    /\ fTimers' = fTimers \cup {fIdx}
    /\ fPhase' = "waiting"
    /\ UNCHANGED <<gateways, fHash, fIdx, fErrors, fOutcome>>
    /\ UNCHANGED <<cmpVars, hookVars>>

\* the catch block: errors.push(err), continue with the next gateway
\* (what becomes of the attempt's timer is left to the step that got here)
Catch(err, answer) ==
    /\ fErrors' = Append(fErrors, err)
    /\ fRequests' = Answered(answer)
    /\ fPhase' = "loop"
    /\ fIdx' = fIdx + 1
    /\ UNCHANGED <<gateways, fHash, fOutcome>>
    /\ UNCHANGED <<cmpVars, hookVars>>

\* the request resolves with a response: clearTimeout, then ok decides
GatewayResponds ==
    /\ fPhase = "waiting"
    /\ \E status \in HttpStatuses :
        IF ResponseOk(status)
        THEN /\ fOutcome' = [kind |-> "response", gateway |-> gateways[fIdx],
                             hash |-> fHash, status |-> status]
             /\ fRequests' = Answered(Responded(status))
             /\ fPhase' = "returned"
             /\ fTimers' = fTimers \ {fIdx}
             /\ UNCHANGED <<gateways, fHash, fIdx, fErrors>>
             /\ UNCHANGED <<cmpVars, hookVars>>
        ELSE /\ Catch([message |-> "HTTP", status |-> status], Responded(status))
             /\ fTimers' = fTimers \ {fIdx}

\* the request rejects (DNS, connection, CORS); clearTimeout is skipped, the
\* attempt's timer stays armed
NetworkFails ==
    /\ fPhase = "waiting"
    /\ Catch([message |-> "Failed to fetch", status |-> 0], Rejected)
    /\ UNCHANGED fTimers

TimeoutRethrows ==
    /\ fPhase = "waiting"
    /\ fIdx \in fTimers
    /\ fTimers' = fTimers \ {fIdx}
    /\ fErrors' = Append(fErrors, [message |-> "AbortError", status |-> 0])
    /\ fRequests' = Answered(Aborted)
    /\ fOutcome' = [kind |-> "AbortError", protocol |-> "ipfs", hash |-> fHash,
                    attemptedGateways |-> SubSeq(gateways, 1, fIdx), errors |-> fErrors']
    /\ fPhase' = "thrown"
    /\ UNCHANGED <<gateways, fHash, fIdx>>
    /\ UNCHANGED <<cmpVars, hookVars>>

\* the timer of the attempt in flight fires first: its controller.abort()
\* rejects the request
TimeoutAborts ==
    /\ fPhase = "waiting"
    /\ fIdx \in fTimers
    /\ Catch([message |-> "AbortError", status |-> 0], Aborted)
    /\ fTimers' = fTimers \ {fIdx}

\* the timer of an attempt that already ended by rejection fires: it aborts
\* that attempt's own controller, whose request is settled
StaleTimerFires ==
    /\ \E i \in fTimers :
        /\ ~(fPhase = "waiting" /\ i = fIdx)
        /\ fTimers' = fTimers \ {i}
    /\ UNCHANGED <<gateways, fHash, fPhase, fIdx, fErrors, fRequests, fOutcome>>
    /\ UNCHANGED <<cmpVars, hookVars>>

ThrowGatewayErrorPartial ==
    /\ fPhase = "loop"
    /\ fIdx > Len(gateways)
    /\ fOutcome' = [kind |-> "GatewayError", protocol |-> "ipfs", hash |-> fHash,
                    attemptedGateways |-> IF gateways = <<>> THEN <<>> ELSE Front(gateways),
                    errors |-> fErrors]
    /\ fPhase' = "thrown"
    /\ UNCHANGED <<gateways, fHash, fIdx, fErrors, fRequests, fTimers>>
    /\ UNCHANGED <<cmpVars, hookVars>>

\* after the loop: throw new GatewayError(msg, "ipfs", hash, this.gateways, errors)
ThrowGatewayError ==
    /\ fPhase = "loop"
    /\ fIdx > Len(gateways)
    /\ fOutcome' = [kind |-> "GatewayError", protocol |-> "ipfs", hash |-> fHash,
                    attemptedGateways |-> gateways, errors |-> fErrors]
    /\ fPhase' = "thrown"
    /\ UNCHANGED <<gateways, fHash, fIdx, fErrors, fRequests, fTimers>>
    /\ UNCHANGED <<cmpVars, hookVars>>

NextFetch ==
    \/ FetchCall
    \/ IssueRequest
    \/ GatewayResponds
    \/ NetworkFails
    \/ TimeoutAborts
    \/ StaleTimerFires
    \/ ThrowGatewayError

SpecFetch == InitFetch /\ [][NextFetch]_vars

(***************************************************************************)
(* fetchJson / fetchFromDir and fetchFromEnsGateway: the request followed  *)
(* by the read of the body.                                                *)
(***************************************************************************)
\* fetchFromEnsGateway(ensName, path): fetch(url) of the .limo gateway, issued
\* without AbortController or timer
EnsFetchCall ==
    /\ fPhase = "idle"
    /\ fHash' = "license.eth"
    /\ fPhase' = "ensWaiting"
    /\ UNCHANGED <<gateways, fIdx, fErrors, fRequests, fOutcome, fTimers>>
    /\ UNCHANGED <<cmpVars, hookVars>>

\* the .limo request resolves: a status that is not ok throws inside the try
EnsResponds ==
    /\ fPhase = "ensWaiting"
    /\ \E status \in HttpStatuses \cup {403} :
        IF ResponseOk(status)
        THEN /\ fOutcome' = [kind |-> "response", gateway |-> 0, hash |-> fHash,
                             status |-> status]
             /\ fPhase' = "ensBody"
        ELSE /\ fOutcome' = [kind |-> "Error", protocol |-> "ens", hash |-> fHash,
                             status |-> status]
             /\ fPhase' = "thrownEns"
    /\ UNCHANGED <<gateways, fHash, fIdx, fErrors, fRequests, fTimers>>
    /\ UNCHANGED <<cmpVars, hookVars>>

\* the .limo request rejects: the catch block rethrows it as a network Error
EnsNetworkFails ==
    /\ fPhase = "ensWaiting"
    /\ fOutcome' = [kind |-> "Error", protocol |-> "ens", hash |-> fHash, status |-> 0]
    /\ fPhase' = "thrownEns"
    /\ UNCHANGED <<gateways, fHash, fIdx, fErrors, fRequests, fTimers>>
    /\ UNCHANGED <<cmpVars, hookVars>>

\* how response.json() ends: the parsed value, SyntaxError for a body that is
\* no JSON, TypeError when reading the body fails
BodyResults == {"parsed", "SyntaxError", "TypeError"}

\* a variant in which a failed body read is caught like a failed request
BodySettlesFallsBack ==
    /\ fPhase = "returned"
    /\ Catch([message |-> "SyntaxError", status |-> 200], Responded(200))
    /\ UNCHANGED fTimers

\* fetchJson / fetchFromDir (and `return response.json()` of
\* fetchFromEnsGateway): the promise of response.json() is returned, outside
\* the gateway loop and not awaited inside any try; it settles the call
BodySettles ==
    /\ fPhase \in {"returned", "ensBody"}
    /\ \E body \in BodyResults :
        fOutcome' = IF body = "parsed"
                    THEN [body |-> "parsed"] @@ fOutcome
                    ELSE [kind |-> body, hash |-> fHash]
    /\ fPhase' = "settled"
    /\ UNCHANGED <<gateways, fHash, fIdx, fErrors, fRequests, fTimers>>
    /\ UNCHANGED <<cmpVars, hookVars>>

NextFetchJson ==
    \/ NextFetch
    \/ EnsFetchCall
    \/ EnsResponds
    \/ EnsNetworkFails
    \/ BodySettles

SpecFetchJson == InitFetch /\ [][NextFetchJson]_vars

(***************************************************************************)
(* Properties of compareRegistries (checked under SpecCompare)             *)
(***************************************************************************)
Done == result # NoResult

SeqRange(s) == {s[i] : i \in 1..Len(s)}
VersionsOf(entries) == {entries[i].version : i \in 1..Len(entries)}
Occurrences(entries, v) == {entries[i] : i \in {j \in 1..Len(entries) : entries[j].version = v}}

\* the entry a manifest defines for version v: its last occurrence in array order
LastOf(entries, v) ==
    entries[CHOOSE i \in 1..Len(entries) :
                /\ entries[i].version = v
                /\ \A j \in (i + 1)..Len(entries) : entries[j].version # v]

TrackedChanges(c, p) ==
    (IF c.effective_date # p.effective_date THEN {"effective_date"} ELSE {})
    \cup (IF c.license.spdx # p.license.spdx THEN {"license.spdx"} ELSE {})
    \cup (IF c.license.text_sha256 # p.license.text_sha256
          THEN {"license.text_sha256"} ELSE {})

CountVersion(entries, v) == Cardinality({i \in 1..Len(entries) : entries[i].version = v})

ChecksWithId(id) == {i \in 1..Len(result.checks) : result.checks[i].id = id}

\* C1: a version of current that proposed omits makes the result invalid and
\* its current entry is listed in removedEntries.
C1_RemovedVersionInvalid ==
    Done =>
        \A v \in VersionsOf(current.entries) \ VersionsOf(proposed.entries) :
            /\ result.valid = FALSE
            /\ \E k \in 1..Len(result.removedEntries) :
                result.removedEntries[k] \in Occurrences(current.entries, v)

\* C1 witness: current has {1,2}, proposed has {1} only: invalid, removedEntries = [v2]
C1_Witness ==
    /\ Done
    /\ VersionsOf(current.entries) = {1, 2}
    /\ VersionsOf(proposed.entries) = {1}
    /\ result.valid = FALSE
    /\ result.removedEntries = <<Entry(2)>>

\* C2: a version present in both manifests whose effective_date, license.spdx
\* or license.text_sha256 differs is listed in modifiedEntries with a non-empty
\* differences list naming exactly the changed fields, and the result is invalid
\* (the entry of a version is the one the manifest defines last).
C2_ModifiedVersionInvalid ==
    Done =>
        \A v \in VersionsOf(current.entries) \cap VersionsOf(proposed.entries) :
            LET c == LastOf(current.entries, v)
                p == LastOf(proposed.entries, v)
            IN TrackedChanges(c, p) # {} =>
                /\ result.valid = FALSE
                /\ \E k \in 1..Len(result.modifiedEntries) :
                    /\ result.modifiedEntries[k].old = c
                    /\ result.modifiedEntries[k].new = p
                    /\ result.modifiedEntries[k].differences # <<>>
                    /\ SeqRange(result.modifiedEntries[k].differences) = TrackedChanges(c, p)

\* C2 witness: current v2 has spdx MIT, proposed v2 has Apache-2.0
C2_Witness ==
    /\ Done
    /\ current.entries = <<Entry(2), Entry(1)>>
    /\ proposed.entries = <<[Entry(2) EXCEPT !.license.spdx = "Apache-2.0"], Entry(1)>>
    /\ result.valid = FALSE
    /\ Len(result.modifiedEntries) = 1
    /\ result.modifiedEntries[1].old.version = 2
    /\ result.modifiedEntries[1].differences = <<"license.spdx">>

\* C3 (as claimed): redefining any field of an already-published version makes
\* the result invalid.
C3_AnyRedefinitionInvalid ==
    Done =>
        \A v \in VersionsOf(current.entries) \cap VersionsOf(proposed.entries) :
            LastOf(current.entries, v) # LastOf(proposed.entries, v) =>
                result.valid = FALSE

\* proposed.entries is current.entries plus one entry of a version current does
\* not have, the schema is valid and the text fetched for it hashes to its
\* declared hash
AppendedOneWithValidHash ==
    /\ Done
    /\ proposed.schema = REGISTRY_SCHEMA
    /\ \E k \in 1..Len(proposed.entries) :
        /\ RemoveAt(proposed.entries, k) = current.entries
        /\ proposed.entries[k].version \notin VersionsOf(current.entries)
        /\ Len(licenseFetch) = 1
        /\ licenseFetch[1] \in Texts
        /\ ToLowerCase(Sha256(licenseFetch[1]))
             = ToLowerCase(proposed.entries[k].license.text_sha256)

\* C4: proposed = current plus exactly one strictly-new version, valid schema,
\* fetched text hashing to the declared hash: valid, one new entry, nothing
\* removed or modified.
C4_AppendOneValid ==
    AppendedOneWithValidHash =>
        /\ result.valid = TRUE
        /\ Len(result.newEntries) = 1
        /\ Len(result.removedEntries) = 0
        /\ Len(result.modifiedEntries) = 0

\* C4 witness: current {1,2}, proposed {1,2,3} with a matching hash written in
\* upper case
C4_Witness ==
    /\ AppendedOneWithValidHash
    /\ VersionsOf(current.entries) = {1, 2}
    /\ VersionsOf(proposed.entries) = {1, 2, 3}
    /\ result.newEntries[1].license.text_sha256 = "AA"
    /\ result.valid = TRUE

CriticalNames == {"schema", "entries_preserved", "entries_unmodified", "hash_v"}

\* C5: valid is the conjunction of passed over the schema, entries_preserved,
\* entries_unmodified and hash_v<N> checks; name_consistent and
\* version_progression are reported with their outcome and do not enter valid.
C5_ValidIsCriticalConjunction ==
    Done =>
        /\ result.valid =
             (\A i \in 1..Len(result.checks) :
                 result.checks[i].id[1] \in CriticalNames => result.checks[i].passed)
        /\ \E i \in ChecksWithId(<<"name_consistent", 0>>) :
             result.checks[i].passed = (current.name = proposed.name)
        /\ \E i \in ChecksWithId(<<"version_progression", 0>>) :
             result.checks[i].passed = (proposed.current_version >= current.current_version)

\* C5 witness: both non-critical checks fail and the result is still valid
C5_Witness ==
    /\ Done
    /\ result.valid = TRUE
    /\ current.name # proposed.name
    /\ proposed.current_version < current.current_version
    /\ \E i \in ChecksWithId(<<"name_consistent", 0>>) : ~result.checks[i].passed
    /\ \E i \in ChecksWithId(<<"version_progression", 0>>) : ~result.checks[i].passed

HashOutcomeBad(entry, outcome) ==
    \/ outcome = "fetch_failed"
    \/ ToLowerCase(Sha256(outcome)) # ToLowerCase(entry.license.text_sha256)

\* C6: every version of either manifest falls in exactly one class: it is in
\* removedEntries exactly once iff only current has it, in newEntries exactly
\* once iff only proposed has it, in modifiedEntries (at most once) only if both
\* have it with a tracked difference; the three lists are disjoint by version,
\* and an added version has exactly one hash_v<version> check, failing iff its
\* text could not be fetched or does not hash to the declared value.
C6_ClassifiedOnce ==
    Done =>
        LET C == VersionsOf(current.entries)
            P == VersionsOf(proposed.entries)
            modifiedOld == [k \in 1..Len(result.modifiedEntries) |->
                                result.modifiedEntries[k].old]
        IN /\ \A v \in C \cup P :
                /\ CountVersion(result.removedEntries, v) = (IF v \in C \ P THEN 1 ELSE 0)
                /\ CountVersion(result.newEntries, v) = (IF v \in P \ C THEN 1 ELSE 0)
                /\ CountVersion(modifiedOld, v) =
                     (IF v \in C \cap P
                         /\ TrackedChanges(LastOf(current.entries, v),
                                           LastOf(proposed.entries, v)) # {}
                      THEN 1 ELSE 0)
           /\ VersionsOf(result.removedEntries) \subseteq C \ P
           /\ VersionsOf(result.newEntries) \subseteq P \ C
           /\ VersionsOf(modifiedOld) \subseteq C \cap P
           /\ \A k \in 1..Len(result.newEntries) :
                LET hits == ChecksWithId(<<"hash_v", result.newEntries[k].version>>)
                IN /\ Cardinality(hits) = 1
                   /\ \A i \in hits :
                        result.checks[i].passed =
                            ~HashOutcomeBad(result.newEntries[k], licenseFetch[k])
           /\ Cardinality({i \in 1..Len(result.checks) : result.checks[i].id[1] = "hash_v"})
                = Len(result.newEntries)

\* C6 witness: an added version whose hash check fails, next to a removed one
C6_Witness ==
    /\ Done
    /\ Len(result.newEntries) = 1
    /\ Len(result.removedEntries) = 1
    /\ licenseFetch[1] \in Texts
    /\ HashOutcomeBad(result.newEntries[1], licenseFetch[1])
    /\ \E i \in ChecksWithId(<<"hash_v", result.newEntries[1].version>>) :
         ~result.checks[i].passed

\* C7: an added entry whose text cannot be fetched or whose digest differs from
\* the declared hash gets a failed hash_v<version> check carrying an error; the
\* comparison still checks every other added entry, ends with the name check
\* and returns a result with valid = false.
C7_HashFailureRecorded ==
    Done =>
        \A k \in 1..Len(result.newEntries) :
            HashOutcomeBad(result.newEntries[k], licenseFetch[k]) =>
                /\ result.valid = FALSE
                /\ \E i \in ChecksWithId(<<"hash_v", result.newEntries[k].version>>) :
                     /\ result.checks[i].passed = FALSE
                     /\ result.checks[i].error # "undefined"
                /\ \A j \in 1..Len(result.newEntries) :
                     ChecksWithId(<<"hash_v", result.newEntries[j].version>>) # {}
                /\ result.checks[Len(result.checks)].id = <<"name_consistent", 0>>

\* C7 witness: the first added entry cannot be fetched, the second is fetched
\* and passes
C7_Witness ==
    /\ Done
    /\ Len(result.newEntries) = 2
    /\ licenseFetch[1] = "fetch_failed"
    /\ licenseFetch[2] \in Texts
    /\ \E i \in ChecksWithId(<<"hash_v", result.newEntries[1].version>>) :
         result.checks[i].error = "Failed to fetch license"
    /\ \E i \in ChecksWithId(<<"hash_v", result.newEntries[2].version>>) :
         result.checks[i].passed
    /\ result.valid = FALSE

\* C8: the summary is the first matching case of: valid with new entries (with
\* their count, "entry" for one), valid without, invalid with removed entries,
\* invalid with modified entries, invalid otherwise.
C8_SummaryPriority ==
    Done =>
        LET n == Len(result.newEntries)
            r == Len(result.removedEntries)
            m == Len(result.modifiedEntries)
        IN /\ (result.valid /\ n > 0) =>
                /\ result.summary.text = "Valid update with N new"
                /\ result.summary.count = n
                /\ result.summary.noun = (IF n = 1 THEN "entry" ELSE "entries")
           /\ (result.valid /\ n = 0) => result.summary.text = "Valid (no changes)"
           /\ (~result.valid /\ r > 0) =>
                /\ result.summary.text = "Invalid: N entries removed"
                /\ result.summary.count = r
           /\ (~result.valid /\ r = 0 /\ m > 0) =>
                /\ result.summary.text = "Invalid: N entries modified"
                /\ result.summary.count = m
           /\ (~result.valid /\ r = 0 /\ m = 0) =>
                result.summary.text = "Invalid: verification failed"

\* C8 witness: entries are both removed and modified, the removed summary shows
C8_Witness ==
    /\ Done
    /\ Len(result.removedEntries) > 0
    /\ Len(result.modifiedEntries) > 0
    /\ result.summary.text = "Invalid: N entries removed"

(***************************************************************************)
(* Properties of IpfsGateway.fetch (checked under SpecFetch)               *)
(***************************************************************************)
ErrorOf(answer) ==
    IF answer.kind = "response" THEN [message |-> "HTTP", status |-> answer.status]
    ELSE IF answer.kind = "rejected" THEN [message |-> "Failed to fetch", status |-> 0]
    ELSE [message |-> "AbortError", status |-> 0]

C10_AllFailedGatewayError ==
    /\ (/\ fPhase \in {"loop", "thrown"}
        /\ Len(fErrors) = Len(gateways)) =>
            /\ fPhase = "loop" => ENABLED ThrowGatewayError
            /\ ~ENABLED IssueRequest
    /\ fPhase = "thrown" =>
        /\ fOutcome.kind = "GatewayError"
        /\ fOutcome.protocol = "ipfs"
        /\ fOutcome.hash = fHash
        /\ fOutcome.attemptedGateways = gateways
        /\ Len(fOutcome.errors) = Len(gateways)
        /\ Len(fRequests) = Len(gateways)
        /\ \A i \in 1..Len(gateways) :
            /\ fRequests[i].gateway = gateways[i]
            /\ fOutcome.errors[i] = ErrorOf(fRequests[i].answer)
    /\ fOutcome.kind = "response" =>
        \E i \in 1..Len(fRequests) :
            /\ fRequests[i].answer.kind = "response"
            /\ ResponseOk(fRequests[i].answer.status)
            /\ fOutcome.gateway = fRequests[i].gateway
    /\ fOutcome.kind = "GatewayError" =>
        \A i \in 1..Len(fRequests) :
            ~(fRequests[i].answer.kind = "response" /\ ResponseOk(fRequests[i].answer.status))

\* C10 witness: 4 gateways that all time out give 4 attempted origins
C10_Witness ==
    /\ fPhase = "thrown"
    /\ Len(gateways) = 4
    /\ Len(fOutcome.attemptedGateways) = 4
    /\ \A i \in 1..4 : fOutcome.errors[i].message = "AbortError"

\* C11: an attempt aborted by its timeout is recorded as the failure of that
\* attempt alone (one AbortError at its place in errors); the call goes on: the
\* next gateway of the list is requested, the call throws only after the last
\* gateway, and a later gateway answering with success is what the call returns.
C11_TimeoutFailsOneAttempt ==
    /\ \A i \in 1..Len(fRequests) :
        fRequests[i].answer.kind = "aborted" =>
            /\ Len(fErrors) >= i
            /\ fErrors[i] = [message |-> "AbortError", status |-> 0]
            /\ i < Len(gateways) =>
                \/ Len(fRequests) > i /\ fRequests[i + 1].gateway = gateways[i + 1]
                \/ fPhase = "loop" /\ fIdx = i + 1 /\ ENABLED IssueRequest
            /\ fPhase = "thrown" =>
                /\ Len(fRequests) = Len(gateways)
                /\ fOutcome.kind = "GatewayError"
    /\ \A j \in 1..Len(fRequests) :
        (fRequests[j].answer.kind = "response" /\ ResponseOk(fRequests[j].answer.status)) =>
            /\ fPhase = "returned"
            /\ fOutcome.kind = "response"
            /\ fOutcome.gateway = gateways[j]

\* C11 witness: the first two attempts time out, the third gateway answers and
\* its response is returned
C11_Witness ==
    /\ fPhase = "returned"
    /\ Len(gateways) = 4
    /\ Len(fRequests) = 3
    /\ fRequests[1].answer = Aborted
    /\ fRequests[2].answer = Aborted
    /\ fOutcome.kind = "response"
    /\ fOutcome.gateway = gateways[3]

(***************************************************************************)
(* useRegistry: the chain reconstructor (src/app/hooks/use-registry.ts).   *)
(* The file holds two variants of the hook: the backward-chain variant     *)
(* walks entries/v{N}.json one request at a time, the inline variant reads *)
(* the entries array of registry.json. One of them is mounted (variant);   *)
(* its arguments and the environment are fixed while it is mounted.        *)
(* ipfs.fetchFromDir is taken as a whole, with the outcomes IpfsGateway    *)
(* has under SpecFetch: a parsed body, GatewayError, or a failed body read.*)
(***************************************************************************)
MaxRefresh == 2

OTHER_REGISTRY_SCHEMA == "other-registry/v2"
OTHER_ENTRY_SCHEMA == "other-entry/v2"

\* file paths; slash tells whether the string starts with "/"
RegistryPath == [slash |-> TRUE, file |-> <<"registry.json", 0>>]
EntryPath(version) == [slash |-> TRUE, file |-> <<"entries/v.json", version>>]
HeadEntryPath(version) == [slash |-> FALSE, file |-> <<"entries/v.json", version>>]

\* fetchFromDir: filePath.startsWith("/") ? filePath : `/${filePath}`
NormalizePath(filePath) == [filePath EXCEPT !.slash = TRUE]

\* a published file: JSON text that parses to value, or text that does not parse
Json(value) == [parses |-> TRUE, value |-> value]
Malformed == [parses |-> FALSE, value |-> [none |-> TRUE]]

OtherSchema(entry) == [entry EXCEPT !.schema = OTHER_ENTRY_SCHEMA]

\* registry.json of the backward-chain layout
ChainManifest(n) ==
    [schema |-> REGISTRY_SCHEMA, name |-> "License Registry",
     current_version |-> n, head_entry_path |-> HeadEntryPath(n)]

\* registry.json of the inline layout, with and without the entries field
InlineManifest(currentVersion, entries) ==
    [schema |-> REGISTRY_SCHEMA, name |-> "License Registry",
     current_version |-> currentVersion, entries |-> entries]

InlineManifestNoEntries(currentVersion) ==
    [schema |-> REGISTRY_SCHEMA, name |-> "License Registry",
     current_version |-> currentVersion]

\* the directory published under the content root: path -> file
EntryFiles(present, flawed) ==
    [p \in {EntryPath(k) : k \in present} |->
        IF p.file[2] \in flawed THEN Json(OtherSchema(Entry(p.file[2])))
        ELSE Json(Entry(p.file[2]))]

ChainSite(registryFile, present, flawed) ==
    (RegistryPath :> registryFile) @@ EntryFiles(present, flawed)

\* the directory in which entries/v{k}.json holds the entry numbered v
Misnumbered(directory, k, v) == [directory EXCEPT ![EntryPath(k)] = Json(Entry(v))]

ChainSites ==
    \* complete chains
    {ChainSite(Json(ChainManifest(n)), 1..n, {}) : n \in Versions}
    \* entries/v{k}.json never published
    \cup {ChainSite(Json(ChainManifest(n)), (1..n) \ {k}, {}) :
            n \in Versions, k \in Versions}
    \* entries/v{k}.json carries another schema tag
    \cup {ChainSite(Json(ChainManifest(n)), 1..n, {k}) : n \in Versions, k \in Versions}
    \* entries/v1.json holds an entry whose version field is n, not 1
    \cup {Misnumbered(ChainSite(Json(ChainManifest(n)), 1..n, {}), 1, n) :
            n \in Versions \ {1}}
    \* registry.json carries another schema tag, or is not JSON
    \cup {ChainSite(Json([ChainManifest(1) EXCEPT !.schema = OTHER_REGISTRY_SCHEMA]), 1..1, {}),
          ChainSite(Malformed, 1..1, {})}

InlineEntryLists ==
    {[i \in 1..n |-> Entry(n + 1 - i)] : n \in 0..MaxVersion}
    \cup {<<Entry(1), Entry(2)>>, <<Entry(2), OtherSchema(Entry(1))>>,
          <<OtherSchema(Entry(1))>>}

InlineSites ==
    {RegistryPath :> Json(InlineManifest(IF es = <<>> THEN 0 ELSE es[1].version, es)) :
        es \in InlineEntryLists}
    \* current_version is not the version of the first entry
    \cup {RegistryPath :> Json(InlineManifest(1, <<Entry(2), Entry(1)>>))}
    \cup {RegistryPath :> Json(InlineManifestNoEntries(1)),
          RegistryPath :> Json([InlineManifest(1, <<Entry(1)>>)
                                  EXCEPT !.schema = OTHER_REGISTRY_SCHEMA]),
          RegistryPath :> Malformed}

(***************************************************************************)
(* Errors: name is the class, message the fixed part of the text, arg the  *)
(* interpolated part.                                                      *)
(***************************************************************************)
Err(name, message, arg) == [name |-> name, message |-> message, arg |-> arg]

\* what the platform's fetch rejects with when the request fails (network,
\* DNS, CORS): a TypeError whose text is the browser's
NetworkMessages == {"Failed to fetch", "Load failed"}

\* what response.json() rejects with when the body stream breaks
BodyMessages == {"Failed to fetch", "network error"}

FetchWords ==
    {"Failed to fetch",
     "Failed to fetch path: status",
     "Network error fetching from ENS gateway. Set VITE_REGISTRY_CID for direct IPFS access."}

\* error.message.includes("fetch")
IncludesFetch(error) == error.message \in FetchWords

IsTypeError(error) == error.name = "TypeError"

(***************************************************************************)
(* What the awaited fetch helpers settle with                              *)
(***************************************************************************)
NoValue == [none |-> TRUE]
NoError == Err("none", "", "")
Ok(value) == [ok |-> TRUE, value |-> value, error |-> NoError]
Threw(error) == [ok |-> FALSE, value |-> NoValue, error |-> error]

\* response.json(): the parsed body, SyntaxError for text that is not JSON,
\* or the platform's TypeError when the body stream breaks
ResponseJson(file) ==
    {Threw(Err("TypeError", m, "")) : m \in BodyMessages}
    \cup (IF file.parses THEN {Ok(file.value)}
          ELSE {Threw(Err("SyntaxError", "Unexpected token", ""))})

\* ipfs.fetchFromDir(dirHash, filePath): GatewayError when no gateway answers
\* ok (always possible; the only outcome for a file that is not published),
\* else response.json() of the file
IpfsFetchFromDir(dirHash, filePath) ==
    {Threw(Err("GatewayError", "All IPFS gateways failed for CID: ", dirHash))}
    \cup (IF NormalizePath(filePath) \in DOMAIN site
          THEN ResponseJson(site[NormalizePath(filePath)])
          ELSE {})

\* the catch block of fetchFromEnsGateway
EnsGatewayCatch(error) ==
    IF IsTypeError(error) /\ IncludesFetch(error)
    THEN Err("Error",
             "Network error fetching from ENS gateway. Set VITE_REGISTRY_CID for direct IPFS access.",
             "")
    ELSE error

\* non-ok statuses the name gateway answers with
EnsErrorStatuses == {"403", "404"}

\* the !response.ok branch of fetchFromEnsGateway
EnsNotOk(status) ==
    IF status = "403"
    THEN Err("Error",
             "CORS blocked by ENS gateway. Set VITE_REGISTRY_CID to use direct IPFS access.", "")
    ELSE Err("Error", "Failed to fetch path: status", status)

\* fetchFromEnsGateway(ensName, path): a rejected request and a non-ok status
\* pass through the catch block; `return response.json()` is not awaited inside
\* the try, so what the body read rejects with reaches the caller as it is
FetchFromEnsGateway(name, filePath) ==
    {Threw(EnsGatewayCatch(Err("TypeError", m, ""))) : m \in NetworkMessages}
    \cup {Threw(EnsGatewayCatch(EnsNotOk(status))) :
            status \in (IF NormalizePath(filePath) \in DOMAIN site
                        THEN {"403"} ELSE EnsErrorStatuses)}
    \cup (IF NormalizePath(filePath) \in DOMAIN site
          THEN ResponseJson(site[NormalizePath(filePath)])
          ELSE {})

(***************************************************************************)
(* fetchRegistry: one action per stretch of code between two awaits        *)
(***************************************************************************)
NoName == ""
EnsNames == {NoName, "license.eth"}
ContentRefOverrides == {NoRef, [protocol |-> "ipfs", hash |-> "bafyO"]}
DevCids == {"", "bafyD"}

NoEnd == [none |-> TRUE]

Logged(filePath, settled) == [path |-> NormalizePath(filePath), settled |-> settled]

ConfigurationError ==
    [status |-> "error",
     error |-> <<"No ENS name configured. Set VITE_LICENSE_ENS_NAME environment variable.", "">>]

Loading == [status |-> "loading"]
NotFound(name) == [status |-> "not_found", ensName |-> name]
Loaded(manifest, currentEntry) ==
    [status |-> "loaded", manifest |-> manifest, currentEntry |-> currentEntry]

\* error instanceof Error ? error.message : "Failed to fetch registry"
ErrorState(error) == [status |-> "error", error |-> <<error.message, error.arg>>]

InitRegistry ==
    /\ variant \in {"chain", "inline"}
    /\ ensName \in EnsNames
    /\ contentRefOverride \in ContentRefOverrides
    /\ devCid \in DevCids
    /\ site \in (IF variant = "chain" THEN ChainSites ELSE InlineSites)
    /\ state = Loading
    /\ entryChain = <<>>
    /\ contentRef = contentRefOverride
    /\ calls = <<>>
    /\ InitVerifyIdle
    /\ InitLibIdle
    /\ current = [none |-> TRUE]
    /\ proposed = [none |-> TRUE]
    /\ edits = 0
    /\ licenseFetch = <<>>
    /\ result = NoResult
    /\ InitFetchIdle

InFlight == {c \in 1..Len(calls) : calls[c].pc # "done"}

StartedFromCache(ref) ==
    [pc |-> IF state.status = "loaded" /\ variant = "chain" THEN "head" ELSE "manifest",
     ref |-> ref,
     manifest |-> IF state.status = "loaded" /\ variant = "chain"
                  THEN state.manifest ELSE NoValue,
     chain |-> <<>>, version |-> 0, log |-> <<>>, root |-> site,
     overlapped |-> InFlight # {}, end |-> NoEnd]

\* a fresh invocation, positioned at the await of registry.json
Started(ref) ==
    [pc |-> "manifest", ref |-> ref, manifest |-> NoValue, chain |-> <<>>,
     version |-> 0, log |-> <<>>, root |-> site, overlapped |-> InFlight # {},
     end |-> NoEnd]

\* an invocation that returned before any await, leaving newState
Returned(newState) ==
    [Started(NoRef) EXCEPT !.pc = "done",
                           !.end = [state |-> newState, entryChain |-> entryChain,
                                    before |-> entryChain]]

FinishClearsChain(c, call, newState, newChain) ==
    LET kept == IF newState.status = "loaded" THEN newChain ELSE <<>> IN
    /\ state' = newState
    /\ entryChain' = kept
    /\ calls' = [calls EXCEPT ![c] = [call EXCEPT !.pc = "done",
                     !.end = [state |-> newState, entryChain |-> kept,
                              before |-> entryChain]]]

\* the invocation c returns or falls off its end
Finish(c, call, newState, newChain) ==
    /\ state' = newState
    /\ entryChain' = newChain
    /\ calls' = [calls EXCEPT ![c] = [call EXCEPT !.pc = "done",
                     !.end = [state |-> newState, entryChain |-> newChain,
                              before |-> entryChain]]]

\* the reference the backward-chain variant fetches from, NoRef when none
ChainRef ==
    IF contentRefOverride # NoRef THEN contentRefOverride
    ELSE IF ensName # NoName /\ devCid # "" THEN [protocol |-> "ipfs", hash |-> devCid]
    ELSE NoRef

\* backward-chain variant, from the call of fetchRegistry to its first await
FetchRegistryChain ==
    /\ variant = "chain"
    /\ Len(calls) < MaxRefresh
    /\ IF ensName = NoName /\ contentRefOverride = NoRef
       THEN /\ state' = ConfigurationError
            /\ calls' = Append(calls, Returned(ConfigurationError))
            /\ UNCHANGED contentRef
       ELSE IF ChainRef = NoRef
       THEN /\ state' = NotFound(IF ensName = NoName THEN "unknown" ELSE ensName)
            /\ calls' = Append(calls, Returned(state'))
            /\ UNCHANGED contentRef
       ELSE /\ state' = Loading
            /\ contentRef' = ChainRef
            /\ calls' = Append(calls, Started(ChainRef))
    /\ UNCHANGED <<variant, ensName, contentRefOverride, devCid, site, entryChain>>
    /\ UNCHANGED <<cmpVars, fetchVars, verifyVars, libVars>>

WalkOnToZero(c, call, chain, version) ==
    IF version >= 0
    THEN /\ calls' = [calls EXCEPT ![c] = [call EXCEPT !.pc = "prev",
                          !.chain = chain, !.version = version]]
         /\ UNCHANGED <<state, entryChain>>
    ELSE Finish(c, [call EXCEPT !.chain = chain, !.version = version],
                Loaded(call.manifest, chain[1]), chain)

\* the rest of the loop after chain holds the entries down to version + 1:
\* wait for entries/v{version}.json, or leave the loop
WalkOn(c, call, chain, version) ==
    IF version >= 1
    THEN /\ calls' = [calls EXCEPT ![c] = [call EXCEPT !.pc = "prev",
                          !.chain = chain, !.version = version]]
         /\ UNCHANGED <<state, entryChain>>
    ELSE Finish(c, [call EXCEPT !.chain = chain, !.version = version],
                Loaded(call.manifest, chain[1]), chain)

\* registry.json settles: schema check, then the head entry is requested
ManifestArrivesChain(c) ==
    /\ variant = "chain"
    /\ calls[c].pc = "manifest"
    /\ \E settled \in IpfsFetchFromDir(calls[c].ref.hash, RegistryPath) :
        LET call == [calls[c] EXCEPT !.log = Append(@, Logged(RegistryPath, settled))] IN
        IF ~settled.ok
        THEN Finish(c, call, ErrorState(settled.error), entryChain)
        ELSE IF settled.value.schema # REGISTRY_SCHEMA
        THEN Finish(c, call,
                    ErrorState(Err("Error", "Unknown registry schema: ", settled.value.schema)),
                    entryChain)
        ELSE /\ calls' = [calls EXCEPT ![c] = [call EXCEPT !.pc = "head",
                              !.manifest = settled.value]]
             /\ UNCHANGED <<state, entryChain>>
    /\ UNCHANGED <<variant, ensName, contentRefOverride, devCid, site, contentRef>>
    /\ UNCHANGED <<cmpVars, fetchVars, verifyVars, libVars>>

\* the head entry settles: schema check, chain = [headEntry], the loop starts
HeadEntryArrives(c) ==
    /\ variant = "chain"
    /\ calls[c].pc = "head"
    /\ \E settled \in IpfsFetchFromDir(calls[c].ref.hash, calls[c].manifest.head_entry_path) :
        LET call == [calls[c] EXCEPT
                        !.log = Append(@, Logged(calls[c].manifest.head_entry_path, settled))] IN
        IF ~settled.ok
        THEN Finish(c, call, ErrorState(settled.error), entryChain)
        ELSE IF settled.value.schema # ENTRY_SCHEMA
        THEN Finish(c, call,
                    ErrorState(Err("Error", "Unknown entry schema: ", settled.value.schema)),
                    entryChain)
        ELSE WalkOn(c, call, <<settled.value>>, settled.value.version - 1)
    /\ UNCHANGED <<variant, ensName, contentRefOverride, devCid, site, contentRef>>
    /\ UNCHANGED <<cmpVars, fetchVars, verifyVars, libVars>>

PrevEntryArrivesThrows(c) ==
    /\ variant = "chain"
    /\ calls[c].pc = "prev"
    /\ \E settled \in IpfsFetchFromDir(calls[c].ref.hash, EntryPath(calls[c].version)) :
        LET call == [calls[c] EXCEPT
                        !.log = Append(@, Logged(EntryPath(calls[c].version), settled))] IN
        IF ~settled.ok
        THEN Finish(c, call, ErrorState(settled.error), entryChain)
        ELSE WalkOn(c, call, Append(call.chain, settled.value), call.version - 1)
    /\ UNCHANGED <<variant, ensName, contentRefOverride, devCid, site, contentRef>>
    /\ UNCHANGED <<cmpVars, fetchVars, verifyVars, libVars>>

\* entries/v{version}.json settles: pushed onto chain, or the loop breaks
PrevEntryArrives(c) ==
    /\ variant = "chain"
    /\ calls[c].pc = "prev"
    /\ \E settled \in IpfsFetchFromDir(calls[c].ref.hash, EntryPath(calls[c].version)) :
        LET call == [calls[c] EXCEPT
                        !.log = Append(@, Logged(EntryPath(calls[c].version), settled))] IN
        IF ~settled.ok
        THEN Finish(c, call, Loaded(call.manifest, call.chain[1]), call.chain)
        ELSE WalkOn(c, call, Append(call.chain, settled.value), call.version - 1)
    /\ UNCHANGED <<variant, ensName, contentRefOverride, devCid, site, contentRef>>
    /\ UNCHANGED <<cmpVars, fetchVars, verifyVars, libVars>>

\* the reference the inline variant fetches from, NoRef when none
InlineRef ==
    IF devCid # "" /\ contentRefOverride = NoRef THEN [protocol |-> "ipfs", hash |-> devCid]
    ELSE IF contentRefOverride # NoRef THEN contentRefOverride
    ELSE IF ensName # NoName THEN [protocol |-> "ens", hash |-> ensName]
    ELSE NoRef

\* inline variant, from the call of fetchRegistry to its await
FetchRegistryInline ==
    /\ variant = "inline"
    /\ Len(calls) < MaxRefresh
    /\ IF ensName = NoName /\ contentRefOverride = NoRef
       THEN /\ state' = ConfigurationError
            /\ calls' = Append(calls, Returned(ConfigurationError))
            /\ UNCHANGED contentRef
       ELSE IF InlineRef = NoRef
       THEN /\ state' = NotFound("unknown")
            /\ calls' = Append(calls, Returned(state'))
            /\ UNCHANGED contentRef
       ELSE /\ state' = Loading
            /\ contentRef' = InlineRef
            /\ calls' = Append(calls, Started(InlineRef))
    /\ UNCHANGED <<variant, ensName, contentRefOverride, devCid, site, entryChain>>
    /\ UNCHANGED <<cmpVars, fetchVars, verifyVars, libVars>>

\* the catch block of the inline variant
InlineCatch(error) ==
    IF IsTypeError(error) /\ IncludesFetch(error)
    THEN NotFound(IF ensName = NoName THEN "unknown" ELSE ensName)
    ELSE ErrorState(error)

CurrentEntryOldest(entries) == entries[Len(entries)]

\* const currentEntry = manifest.entries[0]; undefined for an empty array
CurrentEntry(entries) == IF entries = <<>> THEN NoValue ELSE entries[1]

HasNoEntriesMissingOnly(manifest) == "entries" \notin DOMAIN manifest

\* !manifest.entries || manifest.entries.length === 0
HasNoEntries(manifest) ==
    "entries" \notin DOMAIN manifest \/ Len(manifest.entries) = 0

\* registry.json settles: schema check, entries check, the state is loaded
ManifestArrivesInline(c) ==
    /\ variant = "inline"
    /\ calls[c].pc = "manifest"
    /\ \E settled \in (IF calls[c].ref.protocol = "ens"
                       THEN FetchFromEnsGateway(calls[c].ref.hash, RegistryPath)
                       ELSE IpfsFetchFromDir(calls[c].ref.hash, RegistryPath)) :
        LET call == [calls[c] EXCEPT !.log = Append(@, Logged(RegistryPath, settled))] IN
        IF ~settled.ok
        THEN Finish(c, call, InlineCatch(settled.error), entryChain)
        ELSE IF settled.value.schema # REGISTRY_SCHEMA
        THEN Finish(c, call,
                    InlineCatch(Err("Error", "Unknown registry schema: ", settled.value.schema)),
                    entryChain)
        ELSE IF HasNoEntries(settled.value)
        THEN Finish(c, call, InlineCatch(Err("Error", "Registry has no entries", "")),
                    entryChain)
        ELSE Finish(c, [call EXCEPT !.manifest = settled.value,
                                    !.chain = settled.value.entries],
                    Loaded(settled.value, CurrentEntry(settled.value.entries)),
                    settled.value.entries)
    /\ UNCHANGED <<variant, ensName, contentRefOverride, devCid, site, contentRef>>
    /\ UNCHANGED <<cmpVars, fetchVars, verifyVars, libVars>>

\* the name is pointed at another content root between two refreshes (roots
\* named by CID cannot change)
Republish ==
    /\ variant = "inline"
    /\ InlineRef.protocol = "ens"
    /\ InFlight = {}
    /\ calls # <<>>
    /\ Len(calls) < MaxRefresh
    /\ site' \in InlineSites \ {site}
    /\ UNCHANGED <<variant, ensName, contentRefOverride, devCid,
                   state, entryChain, contentRef, calls>>
    /\ UNCHANGED <<cmpVars, fetchVars, verifyVars, libVars>>

Arrival ==
    \E c \in 1..MaxRefresh :
        /\ c <= Len(calls)
        /\ \/ ManifestArrivesChain(c)
           \/ HeadEntryArrives(c)
           \/ PrevEntryArrives(c)
           \/ ManifestArrivesInline(c)

\* refresh is called again only after the previous invocation has finished
NextRegistry ==
    \/ InFlight = {} /\ FetchRegistryChain
    \/ InFlight = {} /\ FetchRegistryInline
    \/ Arrival
    \/ Republish

SpecRegistry == InitRegistry /\ [][NextRegistry]_vars

\* refresh may be called while earlier invocations are still in flight
NextOverlap ==
    \/ FetchRegistryChain
    \/ FetchRegistryInline
    \/ Arrival
    \/ Republish

SpecOverlap == InitRegistry /\ [][NextOverlap]_vars

(***************************************************************************)
(* Claims about useRegistry                                                *)
(***************************************************************************)
DoneCalls == {c \in 1..Len(calls) : calls[c].pc = "done"}

NotConfigured == ensName = NoName /\ contentRefOverride = NoRef

\* what fetchFromEnsGateway throws when the request to the name gateway is
\* rejected or answered with a non-ok status
NameGatewayFailures ==
    {EnsGatewayCatch(Err("TypeError", m, "")) : m \in NetworkMessages}
    \cup {EnsGatewayCatch(EnsNotOk(status)) : status \in EnsErrorStatuses}

\* the invocation had a name but nothing to read the registry from: no content
\* root could be derived, or the name gateway did not serve the name
NameUnresolved(call) ==
    /\ ensName # NoName
    /\ contentRefOverride = NoRef
    /\ \/ call.ref = NoRef
       \/ /\ call.ref.protocol = "ens"
          /\ ~call.log[1].settled.ok
          /\ call.log[1].settled.error \in NameGatewayFailures

\* C12 (as claimed): a refresh without name and override ends in error with the
\* configuration message and no request; a refresh with a name but no resolvable
\* content root ends in not_found carrying the name.
C12_NoConfigDistinctFromUnresolved ==
    \A c \in DoneCalls :
        /\ NotConfigured =>
            /\ calls[c].end.state = ConfigurationError
            /\ calls[c].log = <<>>
        /\ NameUnresolved(calls[c]) => calls[c].end.state = NotFound(ensName)

\* the schema tags a fetched value carries: its own and those of inlined entries
SchemaTagsOk(value) ==
    /\ value.schema \in {REGISTRY_SCHEMA, ENTRY_SCHEMA}
    /\ "entries" \in DOMAIN value =>
        \A i \in 1..Len(value.entries) : value.entries[i].schema = ENTRY_SCHEMA

\* C13 (as claimed): a loaded state has a registry/v1 manifest and only entry/v1
\* entries in entryChain, and a refresh that read a manifest or an entry with
\* another schema tag ends in error.
C13_LoadedOnlyKnownSchemas ==
    /\ state.status = "loaded" =>
        /\ state.manifest.schema = REGISTRY_SCHEMA
        /\ \A i \in 1..Len(entryChain) : entryChain[i].schema = ENTRY_SCHEMA
    /\ \A c \in DoneCalls :
        (\E i \in 1..Len(calls[c].log) :
            /\ calls[c].log[i].settled.ok
            /\ ~SchemaTagsOk(calls[c].log[i].settled.value))
        => calls[c].end.state.status = "error"

\* C14: backward-chain variant: when registry.json, the head entry v_n and
\* v_(n-1)..v_(k+1) were fetched and the request for entries/v_k.json failed,
\* the refresh ends in loaded, entryChain is exactly [v_n, ..., v_(k+1)] in the
\* order fetched, the failed request is the last one, and nothing older than
\* v_k is requested or included.
C14_ChainStopsAtUnreachable ==
    variant = "chain" =>
        \A c \in DoneCalls :
            LET log == calls[c].log
                L == Len(log)
            IN  (L >= 3 /\ ~log[L].settled.ok) =>
                    LET n == log[2].settled.value.version
                        k == log[L].path.file[2]
                    IN  /\ calls[c].end.state.status = "loaded"
                        /\ calls[c].end.state.currentEntry = log[2].settled.value
                        /\ k = n - (L - 2)
                        /\ \A i \in 3..L : log[i].path = EntryPath(n + 2 - i)
                        /\ calls[c].end.entryChain =
                              [i \in 1..(n - k) |-> log[i + 1].settled.value]
                        /\ \A i \in 1..(n - k) :
                              calls[c].end.entryChain[i] = site[EntryPath(n + 1 - i)].value
                        /\ c = Len(calls) =>
                              /\ state = calls[c].end.state
                              /\ entryChain = calls[c].end.entryChain

\* C14 witness: head v3 and v2 fetched, entries/v1.json is not published, the
\* state is loaded with the chain [v3, v2]
C14_Witness ==
    /\ variant = "chain"
    /\ Len(calls) = 1
    /\ calls[1].pc = "done"
    /\ Len(calls[1].log) = 4
    /\ EntryPath(1) \notin DOMAIN site
    /\ calls[1].log[4].path = EntryPath(1)
    /\ ~calls[1].log[4].settled.ok
    /\ state.status = "loaded"
    /\ entryChain = <<Entry(3), Entry(2)>>

SortedNewestFirst(entries) ==
    \A i, j \in 1..Len(entries) : i < j => entries[i].version > entries[j].version

\* the inline invocations that ended in loaded, with the manifest they read
LoadedInline == {c \in DoneCalls : variant = "inline" /\ calls[c].end.state.status = "loaded"}
ManifestRead(c) == calls[c].log[1].settled.value

\* C15 (as claimed): inline variant: for a manifest M sorted newest-first, a
\* successful refresh yields entryChain = M.entries and a currentEntry whose
\* version is M.current_version.
C15_CurrentEntryHasCurrentVersion ==
    \A c \in LoadedInline :
        SortedNewestFirst(ManifestRead(c).entries) =>
            /\ calls[c].end.entryChain = ManifestRead(c).entries
            /\ calls[c].end.state.currentEntry.version = ManifestRead(c).current_version

\* C15 (amended): inline variant: a successful refresh of a manifest M yields
\* entryChain = M.entries in the same order and currentEntry = M.entries[0];
\* the version of currentEntry is M.current_version when M keeps the manifest
\* invariant that current_version is the version of its newest (first) entry.
C15_CurrentEntryIsFirstEntry ==
    \A c \in LoadedInline :
        /\ calls[c].end.state.manifest = ManifestRead(c)
        /\ calls[c].end.entryChain = ManifestRead(c).entries
        /\ calls[c].end.state.currentEntry = ManifestRead(c).entries[1]
        /\ (/\ SortedNewestFirst(ManifestRead(c).entries)
            /\ ManifestRead(c).current_version = ManifestRead(c).entries[1].version)
           => /\ calls[c].end.state.currentEntry.version = ManifestRead(c).current_version
              /\ \A i \in 1..Len(calls[c].end.entryChain) :
                    calls[c].end.entryChain[i].version
                        <= calls[c].end.state.currentEntry.version
        /\ c = Len(calls) =>
              /\ state = calls[c].end.state
              /\ entryChain = calls[c].end.entryChain

\* C15 witness: the manifest with entries [v3, v2, v1] and current_version 3 is
\* loaded
C15_Witness ==
    /\ variant = "inline"
    /\ state.status = "loaded"
    /\ state.manifest.current_version = 3
    /\ entryChain = <<Entry(3), Entry(2), Entry(1)>>
    /\ state.currentEntry = Entry(3)

NoEntriesError == ErrorState(Err("Error", "Registry has no entries", ""))

\* the inline invocations that read a registry/v1 manifest without entries
ReadNoEntries ==
    {c \in DoneCalls :
        /\ variant = "inline"
        /\ calls[c].log # <<>>
        /\ calls[c].log[1].settled.ok
        /\ ManifestRead(c).schema = REGISTRY_SCHEMA
        /\ \/ "entries" \notin DOMAIN ManifestRead(c)
           \/ ManifestRead(c).entries = <<>>}

\* C16: inline variant: a registry/v1 manifest whose entries array is missing or
\* empty ends the refresh in error ("Registry has no entries"), never in
\* loaded, and entryChain stays what it was before.
C16_NoEntriesIsError ==
    \A c \in ReadNoEntries :
        /\ calls[c].end.state = NoEntriesError
        /\ calls[c].end.entryChain = calls[c].end.before
        /\ c = Len(calls) =>
              /\ state = NoEntriesError
              /\ entryChain = calls[c].end.before

\* C16 witness: a first refresh loaded [v2, v1]; the name is republished with an
\* empty entries array; the second refresh ends in error and entryChain is
\* still [v2, v1]
C16_Witness ==
    /\ Len(calls) = 2
    /\ 2 \in ReadNoEntries
    /\ "entries" \in DOMAIN ManifestRead(2)
    /\ ManifestRead(2).entries = <<>>
    /\ calls[1].end.state.status = "loaded"
    /\ state = NoEntriesError
    /\ entryChain = <<Entry(2), Entry(1)>>

\* every request both invocations made was answered the same way
SameAnswers(a, b) ==
    \A i \in 1..Len(a.log), j \in 1..Len(b.log) :
        a.log[i].path = b.log[j].path => a.log[i].settled = b.log[j].settled

\* pairs of refreshes run one after the other against the same content root
\* whose requests were answered the same way
Repeated ==
    {c \in DoneCalls :
        /\ c + 1 \in DoneCalls
        /\ ~calls[c + 1].overlapped
        /\ calls[c].root = calls[c + 1].root
        /\ SameAnswers(calls[c], calls[c + 1])}

\* C17: refresh is idempotent: of two refreshes run one after the other on an
\* unchanged root with the same answers, the second makes the same requests
\* again (registry.json and every entry; nothing is reused) and ends with the
\* same state and the same entryChain as the first.
C17_RefreshIdempotent ==
    \A c \in Repeated :
        /\ calls[c + 1].log = calls[c].log
        /\ calls[c + 1].end.state = calls[c].end.state
        /\ calls[c + 1].end.entryChain = calls[c].end.entryChain
        /\ calls[c + 1].ref # NoRef =>
              /\ calls[c + 1].log # <<>>
              /\ calls[c + 1].log[1].path = RegistryPath

\* C17 witness: two refreshes of the backward-chain variant, each fetching
\* registry.json, v3, v2 and v1, both ending in loaded with [v3, v2, v1]
C17_Witness ==
    /\ variant = "chain"
    /\ 1 \in Repeated
    /\ Len(calls[1].log) = 4
    /\ Len(calls[2].log) = 4
    /\ calls[1].end.state.status = "loaded"
    /\ state = calls[1].end.state
    /\ entryChain = <<Entry(3), Entry(2), Entry(1)>>

\* C18 (as claimed): when a refresh was started while an earlier one was in
\* flight, then after all of them have completed state and entryChain are those
\* produced by the refresh started last, whatever order the answers came in.
C18_StaleNeverOverwrites ==
    (/\ calls # <<>>
     /\ InFlight = {}
     /\ \E c \in 1..Len(calls) : calls[c].overlapped)
    => /\ state = calls[Len(calls)].end.state
       /\ entryChain = calls[Len(calls)].end.entryChain

\* what reaches fetchRegistry when the request for registry.json fails on the
\* network: the rejected request to the name gateway as fetchFromEnsGateway
\* rethrows it, or the GatewayError of IpfsGateway.fetch after every gateway
\* was rejected
NetworkShaped ==
    {EnsGatewayCatch(Err("TypeError", m, "")) : m \in NetworkMessages}
    \cup {Err("GatewayError", "All IPFS gateways failed for CID: ", h) :
            h \in {r.hash : r \in ContentRefOverrides} \cup DevCids}

\* the inline invocations with a configured name whose request has settled
NamedInline ==
    {c \in DoneCalls : variant = "inline" /\ ensName # NoName /\ calls[c].log # <<>>}

\* C19 (as claimed): inline variant with a configured name: a network or CORS
\* failure of the request for registry.json ends the refresh in not_found,
\* malformed JSON or a schema mismatch ends it in error.
C19_NetworkFailureIsNotFound ==
    \A c \in NamedInline :
        LET settled == calls[c].log[1].settled IN
        /\ (~settled.ok /\ settled.error \in NetworkShaped)
            => calls[c].end.state = NotFound(ensName)
        /\ (~settled.ok /\ settled.error.name = "SyntaxError")
            => calls[c].end.state.status = "error"
        /\ (settled.ok /\ settled.value.schema # REGISTRY_SCHEMA)
            => calls[c].end.state.status = "error"

(***************************************************************************)
(* useEntryVerification (src/app/hooks/use-registry.ts): verify checks one *)
(* entry against the content reference. The backward-chain file checks the *)
(* schema tag first, the inline file the required fields; both then fetch  *)
(* the license text and compare its hash.                                  *)
(***************************************************************************)
DeclaredHashes == Hashes \cup {"bb", "BB", "Bb", "ab"}

\* the entry without its license object
WithoutLicense(e) ==
    [schema |-> e.schema, version |-> e.version, created_at |-> e.created_at,
     effective_date |-> e.effective_date]

\* the entry carrying one signature that names signer
DeclaredSigners == {"0xa11ce", "0xb0b"}
SignedBy(e, signer) ==
    e @@ [signatures |-> <<[type |-> "eip712", signer |-> signer, sig |-> "0xsig"]>>]

VerifyEntries ==
    {[Entry(1) EXCEPT !.license.text_sha256 = h] : h \in DeclaredHashes}
    \cup {OtherSchema(Entry(1)), [Entry(1) EXCEPT !.version = 0],
          [Entry(1) EXCEPT !.effective_date = ""], WithoutLicense(Entry(1))}
    \cup {SignedBy(Entry(1), signer) : signer \in DeclaredSigners}

VerifyRefs ==
    {NoRef, [protocol |-> "ipfs", hash |-> "bafyO"], [protocol |-> "ens", hash |-> "license.eth"]}

InitVerify ==
    /\ variant \in {"chain", "inline"}
    /\ vEntry \in VerifyEntries \cup {NoValue}
    /\ contentRef \in VerifyRefs
    /\ vPc = "idle"
    /\ verifying = FALSE
    /\ verification = [none |-> TRUE]
    /\ vChecks = <<>>
    /\ licenseText = [none |-> TRUE]
    /\ InitLibIdle
    /\ ensName = NoName
    /\ contentRefOverride = NoRef
    /\ devCid = ""
    /\ site = [none |-> TRUE]
    /\ state = Loading
    /\ entryChain = <<>>
    /\ calls = <<>>
    /\ current = [none |-> TRUE]
    /\ proposed = [none |-> TRUE]
    /\ edits = 0
    /\ licenseFetch = <<>>
    /\ result = NoResult
    /\ InitFetchIdle

\* `${error}` and the fixed texts of VerificationCheck.error
ErrorText(prefix, error) == <<prefix, error.name, error.message>>
NoErrorText == <<"undefined", "", "">>

VerificationCheck(id, passed, error) == [id |-> id, passed |-> passed, error |-> error]

\* checks.push of the schema check (backward-chain file)
SchemaCheck(e) ==
    VerificationCheck("schema", e.schema = ENTRY_SCHEMA,
        IF e.schema # ENTRY_SCHEMA THEN <<"Invalid schema: ", e.schema, "">> ELSE NoErrorText)

\* entry.version && entry.effective_date && entry.license
RequiredFields(e) == e.version # 0 /\ e.effective_date # "" /\ "license" \in DOMAIN e

\* checks.push of the structure check (inline file)
StructureCheck(e) ==
    VerificationCheck("structure", RequiredFields(e),
        IF ~RequiredFields(e) THEN <<"Missing required fields", "", "">> ELSE NoErrorText)

FirstCheck(e) == IF variant = "chain" THEN SchemaCheck(e) ELSE StructureCheck(e)

\* response.text() resolved with text
OkText(text) == Ok([text |-> text])

\* ipfs.fetchTextFromDir: GatewayError, a failed body read, or the text served
IpfsFetchTextFromDir(dirHash, filePath) ==
    {Threw(Err("GatewayError", "All IPFS gateways failed for CID: ", dirHash))}
    \cup {Threw(Err("TypeError", m, "")) : m \in BodyMessages}
    \cup {OkText(text) : text \in Texts}

\* fetchTextFromEnsGateway: as fetchFromEnsGateway, with response.text()
FetchTextFromEnsGateway(name, filePath) ==
    {Threw(EnsGatewayCatch(Err("TypeError", m, ""))) : m \in NetworkMessages}
    \cup {Threw(EnsGatewayCatch(EnsNotOk(status))) : status \in EnsErrorStatuses}
    \cup {Threw(Err("TypeError", m, "")) : m \in BodyMessages}
    \cup {OkText(text) : text \in Texts}

\* the license_hash check pushed by the try block or by its catch block
LicenseHashCheck(settled, expectedHash) ==
    IF settled.ok
    THEN VerificationCheck("license_hash", VerifyHash(settled.value.text, expectedHash),
            IF ~VerifyHash(settled.value.text, expectedHash)
            THEN <<"License text hash mismatch", "", "">> ELSE NoErrorText)
    ELSE VerificationCheck("license_hash", FALSE,
            ErrorText("Failed to fetch license text: ", settled.error))

ChainVerificationResultLastOnly(cs, entries) ==
    [valid |-> cs[Len(cs)].passed,
     entryCount |-> Len(entries), checks |-> cs, entries |-> entries]

\* the address viem recovers from a signature over a typed-data payload
RecoverTypedDataAddress(signature) == IF signature = "0xsig" THEN "0xa11ce" ELSE "0x0"

\* every signature of the entry recovers to its declared signer, lowercased
SignaturesMatch(e) ==
    "signatures" \in DOMAIN e =>
        \A i \in 1..Len(e.signatures) :
            RecoverTypedDataAddress(e.signatures[i].sig) = ToLowerCase(e.signatures[i].signer)

ChainVerificationResultSignatures(cs, entries) ==
    [valid |-> (\A i \in 1..Len(cs) : cs[i].passed)
                 /\ \A j \in 1..Len(entries) : SignaturesMatch(entries[j]),
     entryCount |-> Len(entries), checks |-> cs, entries |-> entries]

\* setResult({valid: checks.every(c => c.passed), entryCount, checks, entries})
ChainVerificationResult(cs, entries) ==
    [valid |-> \A i \in 1..Len(cs) : cs[i].passed,
     entryCount |-> Len(entries), checks |-> cs, entries |-> entries]

\* verify, from its call to the await of the license text
Verify ==
    /\ vPc = "idle"
    /\ IF vEntry = NoValue \/ contentRef = NoRef
       THEN /\ vPc' = "returned"
            /\ UNCHANGED <<verifying, verification, vChecks, licenseText>>
       ELSE IF "license" \notin DOMAIN vEntry
       THEN \* entry.license.text_path throws TypeError inside the inner try
            /\ licenseText' = Threw(Err("TypeError", "Cannot read properties of undefined", ""))
            /\ vChecks' = <<FirstCheck(vEntry), LicenseHashCheck(licenseText', "")>>
            /\ verification' = ChainVerificationResult(vChecks', <<vEntry>>)
            /\ verifying' = FALSE
            /\ vPc' = "done"
       ELSE /\ verifying' = TRUE
            /\ vChecks' = <<FirstCheck(vEntry)>>
            /\ vPc' = "fetching"
            /\ UNCHANGED <<verification, licenseText>>
    /\ UNCHANGED <<variant, ensName, contentRefOverride, devCid, site,
                   state, entryChain, contentRef, calls, vEntry>>
    /\ UNCHANGED <<cmpVars, fetchVars, libVars>>

\* the license text request settles: license_hash check, setResult, finally
LicenseTextArrives ==
    /\ vPc = "fetching"
    /\ \E settled \in (IF variant = "inline" /\ contentRef.protocol = "ens"
                       THEN FetchTextFromEnsGateway(contentRef.hash, vEntry.license.text_path)
                       ELSE IpfsFetchTextFromDir(contentRef.hash, vEntry.license.text_path)) :
        /\ licenseText' = settled
        /\ vChecks' = Append(vChecks, LicenseHashCheck(settled, vEntry.license.text_sha256))
    /\ verification' = ChainVerificationResult(vChecks', <<vEntry>>)
    /\ verifying' = FALSE
    /\ vPc' = "done"
    /\ UNCHANGED <<variant, ensName, contentRefOverride, devCid, site,
                   state, entryChain, contentRef, calls, vEntry>>
    /\ UNCHANGED <<cmpVars, fetchVars, libVars>>

NextVerify ==
    \/ Verify
    \/ LicenseTextArrives

SpecVerify == InitVerify /\ [][NextVerify]_vars

(***************************************************************************)
(* Claims about useEntryVerification                                       *)
(***************************************************************************)
\* hex strings that are equal up to the case of their letters
HexClasses == {{"aa", "AA"}, {"bb", "BB", "Bb"}, {"ab"}}
EqualIgnoringCase(a, b) == \E class \in HexClasses : a \in class /\ b \in class

LicenseHashChecks ==
    {i \in 1..Len(verification.checks) : verification.checks[i].id = "license_hash"}

\* C20: when the license text T of an entry with declared hash H was fetched,
\* verify records exactly one license_hash check, and it passes if and only if
\* the hex SHA-256 of T equals H up to letter case.
C20_HashCheckIffDigestMatches ==
    (vPc = "done" /\ licenseText.ok) =>
        /\ Cardinality(LicenseHashChecks) = 1
        /\ \A i \in LicenseHashChecks :
            verification.checks[i].passed
                <=> EqualIgnoringCase(Sha256(licenseText.value.text),
                                      vEntry.license.text_sha256)

\* C20 witness: the text hashes to "aa", the entry declares "AA", the check passed
C20_Witness ==
    /\ vPc = "done"
    /\ licenseText = OkText("text A")
    /\ vEntry.license.text_sha256 = "AA"
    /\ verification.checks[2] = VerificationCheck("license_hash", TRUE, NoErrorText)
    /\ verification.valid

\* C21: verify never aborts on a failed check: once it has run, a result exists
\* with the first check (schema / required fields) followed by one license_hash
\* check; when the license text could not be fetched (a missing license object
\* included) that check has passed = false and the failure as its error; valid
\* is false exactly when some check did not pass; verifying is false again. While
\* the text is awaited, the step that records the license_hash check is enabled.
C21_VerificationNeverAborts ==
    /\ vPc = "fetching" => ENABLED LicenseTextArrives
    /\ vPc = "done" =>
        /\ verification # [none |-> TRUE]
        /\ verifying = FALSE
        /\ Len(verification.checks) = 2
        /\ verification.checks[1] = FirstCheck(vEntry)
        /\ verification.checks[2].id = "license_hash"
        /\ ~licenseText.ok =>
            /\ verification.checks[2].passed = FALSE
            /\ verification.checks[2].error =
                  <<"Failed to fetch license text: ",
                    licenseText.error.name, licenseText.error.message>>
        /\ "license" \notin DOMAIN vEntry => ~licenseText.ok
        /\ verification.valid = FALSE
              <=> \E i \in 1..Len(verification.checks) : ~verification.checks[i].passed
        /\ verification.entryCount = 1
        /\ verification.entries = <<vEntry>>

\* C21 witness: the schema check failed and the license text request ended in
\* GatewayError; both checks are in the result, which is invalid
C21_Witness ==
    /\ variant = "chain"
    /\ vPc = "done"
    /\ vEntry = OtherSchema(Entry(1))
    /\ ~licenseText.ok
    /\ licenseText.error.name = "GatewayError"
    /\ verification.checks[1].passed = FALSE
    /\ verification.checks[2].passed = FALSE
    /\ verification.valid = FALSE

\* C21, second case: the entry has no license object and the result still
\* carries the failed license_hash check
C21_WitnessNoLicense ==
    /\ variant = "inline"
    /\ vPc = "done"
    /\ "license" \notin DOMAIN vEntry
    /\ verification.checks[2].id = "license_hash"
    /\ verification.checks[2].passed = FALSE

(***************************************************************************)
(* Library functions, called on one argument:                              *)
(*   prepareEntryForSigning (src/unnamed/part_013),                        *)
(*   parseContentUri / formatContentUri (src/app/lib/storage/types.ts),    *)
(*   decodeContenthash (src/unnamed/part_011).                             *)
(***************************************************************************)
Return(value) == [called |-> TRUE, threw |-> FALSE, value |-> value]
Throw(error) == [called |-> TRUE, threw |-> TRUE, value |-> error]

\* String.prototype.startsWith
StartsWith(s, prefix) == Len(s) >= Len(prefix) /\ SubSeq(s, 1, Len(prefix)) = prefix

LICENSE_ENTRY_DOMAIN == [name |-> "CommonGround License Registry", version |-> "1"]

LICENSE_ENTRY_TYPES ==
    [LicenseEntry |->
        <<[name |-> "schema", type |-> "string"],
          [name |-> "version", type |-> "uint256"],
          [name |-> "created_at", type |-> "string"],
          [name |-> "effective_date", type |-> "string"],
          [name |-> "license_spdx", type |-> "string"],
          [name |-> "license_text_sha256", type |-> "bytes32"],
          [name |-> "prev_entry_hash", type |-> "string"]>>]

\* BigInt(n) of an integer n
BigInt(n) == [bigint |-> n]

\* entry.prev_entry_ref is neither null nor undefined
HasPrevEntryRef(e) == "prev_entry_ref" \in DOMAIN e /\ e.prev_entry_ref # NoRef

PrevEntryHashProtocolOnly(e) ==
    IF HasPrevEntryRef(e) THEN e.prev_entry_ref.protocol \o "://" ELSE ""

\* prevEntryHash: `${protocol}://${hash}` or ""
PrevEntryHash(e) ==
    IF HasPrevEntryRef(e)
    THEN e.prev_entry_ref.protocol \o "://" \o e.prev_entry_ref.hash
    ELSE ""

\* licenseHashBytes32: the declared hash with a 0x prefix
LicenseHashBytes32(e) ==
    IF StartsWith(e.license.text_sha256, "0x")
    THEN e.license.text_sha256
    ELSE "0x" \o e.license.text_sha256

PrepareEntryForSigning(e) ==
    [domain |-> LICENSE_ENTRY_DOMAIN,
     types |-> LICENSE_ENTRY_TYPES,
     primaryType |-> "LicenseEntry",
     message |->
        [schema |-> e.schema,
         version |-> BigInt(e.version),
         created_at |-> e.created_at,
         effective_date |-> e.effective_date,
         license_spdx |-> e.license.spdx,
         license_text_sha256 |-> LicenseHashBytes32(e),
         prev_entry_hash |-> PrevEntryHash(e)]]

\* the entries handed to prepareEntryForSigning
PrevEntryRefs ==
    {NoRef, [protocol |-> "ipfs", hash |-> "QmPrev"], [protocol |-> "ar", hash |-> "txPrev"]}

SignedPart ==
    [schema : {ENTRY_SCHEMA, OTHER_ENTRY_SCHEMA},
     version : {1, 2},
     created_at : {"2025-01-01T00:00:00Z", "2026-01-01T00:00:00Z"},
     effective_date : Dates,
     license : [spdx : Spdx, text_path : Paths, text_sha256 : {"aa", "0xaa", "bb"}],
     prev_entry_ref : PrevEntryRefs]

GovernanceInfo == [decision_path |-> "governance/d.pdf", decision_sha256 |-> "cc"]

Signature == [type |-> "eip712", signer |-> "0xa11ce", sig |-> "0xsig"]

SigningEntries ==
    SignedPart
    \cup {e @@ [governance |-> GovernanceInfo] : e \in SignedPart}
    \cup {e @@ [signatures |-> <<Signature>>] : e \in SignedPart}
    \cup {e @@ [governance |-> GovernanceInfo, signatures |-> <<Signature>>] : e \in SignedPart}
    \* prev_entry_ref left out of the object
    \cup {[schema |-> ENTRY_SCHEMA, version |-> 1, created_at |-> "2025-01-01T00:00:00Z",
           effective_date |-> "2025-01-01",
           license |-> [spdx |-> "MIT", text_path |-> "licenses/a.txt", text_sha256 |-> "aa"]]}

InitLibSigning ==
    /\ libFn = "prepareEntryForSigning"
    /\ libArg \in SigningEntries

LibFrame ==
    /\ UNCHANGED <<libFn, libArg>>
    /\ UNCHANGED <<variant, ensName, contentRefOverride, devCid, site,
                   state, entryChain, contentRef, calls>>
    /\ UNCHANGED <<cmpVars, fetchVars, verifyVars>>

(***************************************************************************)
(* parseContentUri / formatContentUri  (src/app/lib/storage/types.ts)      *)
(***************************************************************************)
\* the alternatives of the pattern /^(ipfs|ipns|bzz|ar):\/\/(.+)$/
UriProtocols == {"ipfs", "ipns", "bzz", "ar"}

\* `.` of a pattern without the s flag matches no line terminator
LineTerminators == {"\n", "\r"}

MatchesDotPlus(s) ==
    /\ Len(s) >= 1
    /\ \A i \in 1..Len(s) : SubSeq(s, i, i) \notin LineTerminators

\* the string after the first n characters
Slice(s, n) == SubSeq(s, n + 1, Len(s))

FormatContentUriColonOnly(ref) == ref.protocol \o ":" \o ref.hash

FormatContentUri(ref) == ref.protocol \o "://" \o ref.hash

\* null is NoRef
ParseContentUri(uri) ==
    LET match == {p \in UriProtocols :
                    /\ StartsWith(uri, p \o "://")
                    /\ MatchesDotPlus(Slice(uri, Len(p) + 3))}
    IN IF match = {} THEN NoRef
       ELSE LET p == CHOOSE q \in match : TRUE
            IN [protocol |-> p, hash |-> Slice(uri, Len(p) + 3)]

\* formatContentUri(parseContentUri(uri)); reading ref.protocol of null throws
FormatParsedUri(uri) ==
    IF ParseContentUri(uri) = NoRef
    THEN Throw([name |-> "TypeError", message |-> "Cannot read properties of null"])
    ELSE Return(FormatContentUri(ParseContentUri(uri)))

Uris ==
    {"ipfs://QmHash", "ipns://k51key", "bzz://abc123", "ar://txid", "ipfs://a://b",
     "ipfs://x", "ar:// ",
     "ens://license.eth", "http://example.org", "IPFS://QmHash", "xipfs://QmHash",
     " ipfs://QmHash", "ipfs://", "ipfs:/QmHash", "ipfs:QmHash", "QmHash", "",
     "ar://tx\nid", "bzz://\n"}

InitLibUri ==
    /\ libFn \in {"parseContentUri", "formatContentUri(parseContentUri)"}
    /\ libArg \in Uris

ParseContentUriCall ==
    /\ libFn = "parseContentUri"
    /\ libRet = NotCalled
    /\ libRet' = Return(ParseContentUri(libArg))
    /\ LibFrame

FormatParsedUriCall ==
    /\ libFn = "formatContentUri(parseContentUri)"
    /\ libRet = NotCalled
    /\ libRet' = FormatParsedUri(libArg)
    /\ LibFrame

(***************************************************************************)
(* decodeContenthash  (src/unnamed/part_011)                               *)
(* A byte array is a sequence of 0..255; a 32-bit integer is the set of    *)
(* its one bits, so that << and | wrap as they do on int32.                *)
(***************************************************************************)
IPFS_NS == 227   \* 0xe3
IPNS_NS == 229   \* 0xe5
SWARM_NS == 228  \* 0xe4

HEX_LOWER == "0123456789abcdef"
HEX_UPPER == "0123456789ABCDEF"
BASE58_ALPHABET == "123456789ABCDEFGHJKLMNPQRSTUVWXYZabcdefghijkmnopqrstuvwxyz"
BASE32_ALPHABET == "abcdefghijklmnopqrstuvwxyz234567"

\* alphabet[i] of a string, i counted from 0
CharAt(s, i) == SubSeq(s, i + 1, i + 1)

RECURSIVE Pow2(_)
Pow2(n) == IF n = 0 THEN 1 ELSE 2 * Pow2(n - 1)

\* the one bits of a byte, and of the int32 values the decoder compares with
Bits(n) == {i \in 0..7 : (n \div Pow2(i)) % 2 = 1}

\* x << shift on int32: the count is taken modulo 32, bits above 31 are lost
ShiftLeft(bits, shift) == {b + (shift % 32) : b \in bits} \cap (0..31)

\* the value of one hexadecimal digit, or a negative number for another character
HexValue(c) ==
    LET at == {i \in 0..15 : CharAt(HEX_LOWER, i) = c \/ CharAt(HEX_UPPER, i) = c}
    IN IF at = {} THEN 0 - 1 ELSE CHOOSE i \in at : TRUE

\* parseInt(s, 16) of a slice of at most two characters: the longest prefix of
\* digits, NaN when there is none ("0x" is taken as a prefix with no digits)
ParseInt16(s) ==
    IF Len(s) = 0 \/ s \in {"0x", "0X"} \/ HexValue(CharAt(s, 0)) < 0
    THEN [nan |-> TRUE, n |-> 0]
    ELSE IF Len(s) = 1 \/ HexValue(CharAt(s, 1)) < 0
         THEN [nan |-> FALSE, n |-> HexValue(CharAt(s, 0))]
         ELSE [nan |-> FALSE, n |-> 16 * HexValue(CharAt(s, 0)) + HexValue(CharAt(s, 1))]

\* storing a number into a Uint8Array element: NaN is stored as 0
ToUint8(parsed) == IF parsed.nan THEN 0 ELSE parsed.n % 256

\* hexToBytes: new Uint8Array(hex.length / 2) truncates a fractional length,
\* and the write of the odd last digit past the end is dropped
HexToBytes(hex) ==
    [k \in 1..(Len(hex) \div 2) |-> ToUint8(ParseInt16(SubSeq(hex, 2 * k - 1, 2 * k)))]

RECURSIVE BytesToHex(_)
BytesToHex(bytes) ==
    IF bytes = <<>> THEN ""
    ELSE CharAt(HEX_LOWER, bytes[1] \div 16) \o CharAt(HEX_LOWER, bytes[1] % 16)
         \o BytesToHex(Tail(bytes))

RECURSIVE ReadVarintFrom(_, _, _, _)
ReadVarintFrom(bytes, value, bytesRead, shift) ==
    IF bytesRead >= Len(bytes)
    THEN [value |-> value, bytesRead |-> bytesRead]
    ELSE LET byte == bytes[bytesRead + 1]
             v == value \cup ShiftLeft(Bits(byte % 128), shift)
         IN IF byte < 128
            THEN [value |-> v, bytesRead |-> bytesRead + 1]
            ELSE ReadVarintFrom(bytes, v, bytesRead + 1, shift + 7)

ReadVarint(bytes) == ReadVarintFrom(bytes, {}, 0, 0)

\* base58btcEncode: the bytes are one big-endian number, divided by 58 until
\* it is zero.  DivMod58 divides the bytes lo..hi, carrying the remainder rem in.
RECURSIVE DivMod58(_, _, _, _)
DivMod58(num, lo, hi, rem) ==
    IF lo > hi THEN [q |-> <<>>, r |-> rem]
    ELSE IF lo = hi
         THEN [q |-> <<(rem * 256 + num[lo]) \div 58>>, r |-> (rem * 256 + num[lo]) % 58]
         ELSE LET mid == (lo + hi) \div 2
                  left == DivMod58(num, lo, mid, rem)
                  right == DivMod58(num, mid + 1, hi, left.r)
              IN [q |-> left.q \o right.q, r |-> right.r]

RECURSIVE Base58Digits(_, _)
Base58Digits(num, text) ==
    IF \A i \in 1..Len(num) : num[i] = 0 THEN text
    ELSE LET dm == DivMod58(num, 1, Len(num), 0)
         IN Base58Digits(dm.q, CharAt(BASE58_ALPHABET, dm.r) \o text)

RECURSIVE LeadingZeros(_)
LeadingZeros(bytes) ==
    IF bytes = <<>> \/ bytes[1] # 0 THEN ""
    ELSE "1" \o LeadingZeros(Tail(bytes))

Base58btcEncode(bytes) == LeadingZeros(bytes) \o Base58Digits(bytes, "")

\* base32Encode: value holds the bits not yet written; only its low 12 bits
\* are ever read, so it is kept modulo 2^12
RECURSIVE Base32Drain(_, _)
Base32Drain(value, bits) ==
    IF bits < 5 THEN [text |-> "", bits |-> bits]
    ELSE LET rest == Base32Drain(value, bits - 5)
         IN [text |-> CharAt(BASE32_ALPHABET, (value \div Pow2(bits - 5)) % 32) \o rest.text,
             bits |-> rest.bits]

RECURSIVE Base32From(_, _, _, _)
Base32From(bytes, i, value, bits) ==
    IF i > Len(bytes)
    THEN IF bits > 0
         THEN CharAt(BASE32_ALPHABET, (value * Pow2(5 - bits)) % 32)
         ELSE ""
    ELSE LET v == (value * 256 + bytes[i]) % 4096
             drained == Base32Drain(v, bits + 8)
         IN drained.text \o Base32From(bytes, i + 1, v, drained.bits)

Base32Encode(bytes) == Base32From(bytes, 1, 0, 0)

\* a string or null
Str(s) == [null |-> FALSE, str |-> s]
Null == [null |-> TRUE, str |-> ""]
Truthy(s) == ~s.null /\ s.str # ""

\* decodeCid (nothing in its try block throws)
DecodeCid(bytes) ==
    IF Len(bytes) < 2 THEN Null
    ELSE IF bytes[1] = 18 /\ bytes[2] = 32 /\ Len(bytes) = 34
         THEN Str(Base58btcEncode(bytes))
         ELSE IF ReadVarint(bytes).value = Bits(1)
              THEN Str("b" \o Base32Encode(bytes))
              ELSE Str(BytesToHex(bytes))

\* decodeContenthash; null is NoRef.  Nothing in its try block throws: a
\* fractional array length is truncated and parseInt yields NaN, not an error.
DecodeContenthash(contenthash) ==
    IF ~Truthy(contenthash) \/ contenthash.str = "0x" \/ Len(contenthash.str) < 4
    THEN NoRef
    ELSE LET hex == IF StartsWith(contenthash.str, "0x")
                    THEN Slice(contenthash.str, 2) ELSE contenthash.str
             bytes == HexToBytes(hex)
             varint == ReadVarint(bytes)
             contentBytes == SubSeq(bytes, varint.bytesRead + 1, Len(bytes))
         IN IF Len(bytes) < 2 THEN NoRef
            ELSE IF varint.value = Bits(IPFS_NS)
                 THEN IF Truthy(DecodeCid(contentBytes))
                      THEN [protocol |-> "ipfs", hash |-> DecodeCid(contentBytes).str]
                      ELSE NoRef
            ELSE IF varint.value = Bits(IPNS_NS)
                 THEN IF Truthy(DecodeCid(contentBytes))
                      THEN [protocol |-> "ipns", hash |-> DecodeCid(contentBytes).str]
                      ELSE NoRef
            ELSE IF varint.value = Bits(SWARM_NS)
                 THEN IF Len(contentBytes) >= 32
                      THEN [protocol |-> "bzz", hash |-> BytesToHex(SubSeq(contentBytes, 1, 32))]
                      ELSE NoRef
            ELSE NoRef

\* 32 bytes of content, as hexadecimal digits
Digest32 == "00112233445566778899aabbccddeeff00112233445566778899aabbccddeeff"

Contenthashes ==
    {Null} \cup
    {Str(s) : s \in
        {"", "0x", "0xe", "e30", "0xe3", "0xe301", "0xe30101",
         "0xe3010170", "0xE3010170", "e3010170", "0xe5010172",
         "0xe301" \o "1220" \o Digest32,
         "0xe30101701220" \o Digest32,
         "0xe401" \o Digest32,
         "0xe40101fa011b20" \o Digest32,
         "0xe401" \o SubSeq(Digest32, 1, 62),
         "0xe4" \o Digest32,
         "0x0a0170", "0xe6010170", "0x00010170", "0x8080", "0xe38180000170",
         "0xe3808080808080", "0xzzzz", "0xe301zzzz", "0xe40g" \o Digest32,
         "0xe3010170a", "0xe301017"}}

InitLibContenthash ==
    /\ libFn = "decodeContenthash"
    /\ libArg \in Contenthashes

DecodeContenthashCall ==
    /\ libFn = "decodeContenthash"
    /\ libRet = NotCalled
    /\ libRet' = Return(DecodeContenthash(libArg))
    /\ LibFrame

PrepareEntryForSigningCall ==
    /\ libFn = "prepareEntryForSigning"
    /\ libRet = NotCalled
    /\ libRet' = Return(PrepareEntryForSigning(libArg))
    /\ LibFrame

InitLib ==
    /\ \/ InitLibSigning
       \/ InitLibUri
       \/ InitLibContenthash
    /\ libRet = NotCalled
    /\ InitVerifyIdle
    /\ variant = "chain"
    /\ ensName = ""
    /\ contentRefOverride = NoRef
    /\ devCid = ""
    /\ site = [none |-> TRUE]
    /\ state = [status |-> "loading"]
    /\ entryChain = <<>>
    /\ contentRef = NoRef
    /\ calls = <<>>
    /\ current = [none |-> TRUE]
    /\ proposed = [none |-> TRUE]
    /\ edits = 0
    /\ licenseFetch = <<>>
    /\ result = NoResult
    /\ InitFetchIdle

NextLib ==
    \/ PrepareEntryForSigningCall
    \/ ParseContentUriCall
    \/ FormatParsedUriCall
    \/ DecodeContenthashCall

SpecLib == InitLib /\ [][NextLib]_vars

(***************************************************************************)
(* Claims about the library functions                                      *)
(***************************************************************************)
\* the fields of an entry the claim names as signed
SignedFields(e) ==
    <<e.schema, e.version, e.created_at, e.effective_date, e.license.spdx,
      e.license.text_sha256,
      IF HasPrevEntryRef(e) THEN e.prev_entry_ref ELSE NoRef>>

\* C25: the payload of prepareEntryForSigning depends only on schema, version,
\* created_at, effective_date, license.spdx, license.text_sha256 and
\* prev_entry_ref: every entry equal to the argument on these fields gives the
\* same payload, whatever its text_path, governance and signatures; the
\* previous-entry field is "" exactly when there is no prev_entry_ref and
\* "protocol://hash" otherwise; the domain is the fixed name/version pair
\* without chainId.
C25_PayloadDependsOnSignedFields ==
    (libFn = "prepareEntryForSigning" /\ libRet # NotCalled) =>
        /\ ~libRet.threw
        /\ \A e \in SigningEntries :
            SignedFields(e) = SignedFields(libArg)
                => PrepareEntryForSigning(e) = libRet.value
        /\ libRet.value.message.prev_entry_hash = "" <=> ~HasPrevEntryRef(libArg)
        /\ \A r \in PrevEntryRefs \ {NoRef} :
            ("prev_entry_ref" \in DOMAIN libArg /\ libArg.prev_entry_ref = r)
                => libRet.value.message.prev_entry_hash \in {"ipfs://QmPrev", "ar://txPrev"}
                   /\ StartsWith(libRet.value.message.prev_entry_hash, r.protocol)
        /\ DOMAIN libRet.value.domain = {"name", "version"}
        /\ libRet.value.domain.name = "CommonGround License Registry"
        /\ libRet.value.domain.version = "1"
        /\ DOMAIN libRet.value.message =
              {"schema", "version", "created_at", "effective_date", "license_spdx",
               "license_text_sha256", "prev_entry_hash"}

\* C25 witness: an entry with governance, signatures and a previous entry was
\* prepared; its payload names the previous entry as ipfs://QmPrev
C25_Witness ==
    /\ libFn = "prepareEntryForSigning"
    /\ libRet # NotCalled
    /\ "governance" \in DOMAIN libArg
    /\ "signatures" \in DOMAIN libArg
    /\ libArg.license.text_path = "licenses/b.txt"
    /\ libRet.value.message.prev_entry_hash = "ipfs://QmPrev"
    /\ libRet.value.message.license_text_sha256 = "0xaa"


\* a well-formed "<protocol>://<hash>": a supported protocol, the separator and a
\* non-empty hash without line terminators
WellFormedUri(uri) ==
    \E p \in {"ipfs", "ipns", "bzz", "ar"} :
        /\ Len(uri) > Len(p) + 3
        /\ SubSeq(uri, 1, Len(p) + 3) = p \o "://"
        /\ \A i \in (Len(p) + 4)..Len(uri) : SubSeq(uri, i, i) \notin {"\n", "\r"}

\* the string starts with the tag of a supported protocol
HasSupportedTag(uri) ==
    \E p \in {"ipfs", "ipns", "bzz", "ar"} :
        Len(uri) >= Len(p) + 3 /\ SubSeq(uri, 1, Len(p) + 3) = p \o "://"

C23_WitnessUnsupported ==
    /\ libFn = "parseContentUri"
    /\ libRet # NotCalled
    /\ libArg = "ens://license.eth"
    /\ libRet.value = NoRef


\* the hexadecimal part of a contenthash string
HexPart(s) == IF StartsWith(s, "0x") THEN Slice(s, 2) ELSE s

\* null, "0x", too short, an odd number of digits, or a character that is no
\* hexadecimal digit
MalformedContenthash(contenthash) ==
    \/ contenthash.null
    \/ contenthash.str = "0x"
    \/ Len(contenthash.str) < 4
    \/ Len(HexPart(contenthash.str)) % 2 = 1
    \/ \E i \in 1..Len(HexPart(contenthash.str)) :
          HexValue(SubSeq(HexPart(contenthash.str), i, i)) < 0

\* the codec tag at the head of a contenthash string
CodecTag(contenthash) == ReadVarint(HexToBytes(HexPart(contenthash.str))).value

\* C24: decodeContenthash never throws; it returns null for null, "0x",
\* too-short, odd-length or otherwise malformed input and for every codec tag
\* other than 0xe3, 0xe5 and 0xe4; a reference it returns has protocol ipfs,
\* ipns or bzz according to the tag, and a bzz hash has 64 characters.
C24_NullForMalformedContenthash ==
    (libFn = "decodeContenthash" /\ libRet # NotCalled) =>
        /\ ~libRet.threw
        /\ MalformedContenthash(libArg) => libRet.value = NoRef
        /\ (~libArg.null /\ CodecTag(libArg) \notin {Bits(227), Bits(229), Bits(228)})
              => libRet.value = NoRef
        /\ libRet.value # NoRef =>
              /\ CodecTag(libArg) = Bits(227) <=> libRet.value.protocol = "ipfs"
              /\ CodecTag(libArg) = Bits(229) <=> libRet.value.protocol = "ipns"
              /\ CodecTag(libArg) = Bits(228) <=> libRet.value.protocol = "bzz"
              /\ libRet.value.protocol = "bzz" => Len(libRet.value.hash) = 64


(***************************************************************************)
(* Claims about signatures in useEntryVerification                         *)
(***************************************************************************)
\* the entry without its signatures
Unsigned(e) == [f \in DOMAIN e \ {"signatures"} |-> e[f]]

AwaitingNetwork == fPhase \in {"waiting", "ensWaiting", "returned", "ensBody"}

\* C26: every network request made while the registry loads, through the IPFS
\* gateways or through the .limo gateway, is bounded by a timeout: whenever the
\* call waits for the network, a timer that aborts the wait is armed (so the
\* call settles, and the refresh leaves loading, even if no gateway answers).
C26_EveryWaitHasTimeout ==
    AwaitingNetwork => fIdx \in fTimers

\* C29: the gateway fallback covers the request only. A gateway that answered
\* with a success status is the last one contacted, and the call is past its
\* loop; when the body of that answer is no JSON or cannot be read, the call
\* ends with that error (not GatewayError), the error is not added to the
\* gateway errors, and no later gateway is requested.
C29_BodyErrorPropagates ==
    /\ \A i \in 1..Len(fRequests) :
        (fRequests[i].answer.kind = "response" /\ ResponseOk(fRequests[i].answer.status)) =>
            /\ i = Len(fRequests)
            /\ fPhase \in {"returned", "settled"}
    /\ (fPhase = "settled" /\ fIdx >= 1) =>
        /\ fOutcome.kind \in {"response", "SyntaxError", "TypeError"}
        /\ fOutcome.kind = "response" => fOutcome.body = "parsed"
        /\ Len(fRequests) = fIdx
        /\ fRequests[fIdx].gateway = gateways[fIdx]
        /\ ResponseOk(fRequests[fIdx].answer.status)
        /\ Len(fErrors) = fIdx - 1
        /\ ~ENABLED IssueRequest
        /\ ~ENABLED ThrowGatewayError
    /\ fPhase = "returned" => ENABLED BodySettles

\* C29 witness: the first of three gateways answered 200 with a body that is
\* no JSON; the call ended with SyntaxError after one request
C29_Witness ==
    /\ fPhase = "settled"
    /\ Len(gateways) = 3
    /\ fIdx = 1
    /\ fOutcome.kind = "SyntaxError"
    /\ Len(fRequests) = 1
    /\ fErrors = <<>>


(***************************************************************************)
(* Claims about the walk of the backward-chain variant                     *)
(***************************************************************************)
\* the backward-chain invocations that ended in loaded
LoadedChain == {c \in DoneCalls : variant = "chain" /\ calls[c].end.state.status = "loaded"}

\* the requests for entries/v{N}.json issued by the walk, after registry.json
\* and the head entry
EntryFetches(c) == Len(calls[c].log) - 2

\* every published entries/v{k}.json holds the entry whose version field is k
NumberedByName(directory) ==
    \A p \in DOMAIN directory \ {RegistryPath} :
        directory[p].parses => directory[p].value.version = p.file[2]

\* C27 as stated: the loaded entryChain has strictly decreasing positive
\* versions, its i-th following element having version head.version - i, and
\* the walk issues at most head.version - 1 entry fetches.
C27_ChainVersionsDescend ==
    \A c \in LoadedChain :
        LET chain == calls[c].end.entryChain IN
        /\ chain[1] = calls[c].end.state.currentEntry
        /\ \A i \in 1..Len(chain) :
            /\ chain[i].version = chain[1].version - (i - 1)
            /\ chain[i].version >= 1
        /\ EntryFetches(c) <= chain[1].version - 1

\* C27 amended: the first element of the loaded entryChain is the head entry;
\* its i-th following element is what the request for
\* entries/v{head.version - i}.json returned, whatever version field that file
\* carries; the walk issues at most head.version - 1 entry fetches. When every
\* file holds the version its name says, the versions are head.version - i.
C27_ChainFollowsFileNames ==
    \A c \in LoadedChain :
        LET chain == calls[c].end.entryChain
            log == calls[c].log
        IN
        /\ chain[1] = calls[c].end.state.currentEntry
        /\ chain[1] = log[2].settled.value
        /\ \A i \in 1..(Len(chain) - 1) :
            /\ log[i + 2].path = EntryPath(chain[1].version - i)
            /\ chain[i + 1] = log[i + 2].settled.value
            /\ chain[i + 1] = calls[c].root[EntryPath(chain[1].version - i)].value
        /\ Len(chain) - 1 <= EntryFetches(c)
        /\ EntryFetches(c) <= chain[1].version - 1
        /\ NumberedByName(calls[c].root) =>
              \A i \in 1..Len(chain) :
                  chain[i].version = chain[1].version - (i - 1) /\ chain[i].version >= 1

\* C27 witness: entries/v1.json holds an entry numbered 3; the chain loaded
\* from head v3 has the versions 3, 2, 3 after two entry fetches
C27_Witness ==
    /\ variant = "chain"
    /\ Len(calls) = 1
    /\ calls[1].pc = "done"
    /\ state.status = "loaded"
    /\ Len(entryChain) = 3
    /\ entryChain[1].version = 3
    /\ entryChain[3].version = 3
    /\ calls[1].log[4].path = EntryPath(1)


(***************************************************************************)
(* Claims about entryChain across refreshes                                *)
(***************************************************************************)
\* C28: a step that leaves the hook in loading, error or not_found leaves
\* entryChain unchanged, so entryChain is replaced only by the step that sets
\* the state to loaded; and in every loaded state the first element of
\* entryChain is currentEntry.
C28_ChainReplacedOnlyWhenLoaded ==
    [][/\ state'.status # "loaded" => entryChain' = entryChain
       /\ state'.status = "loaded" =>
            /\ entryChain' # <<>>
            /\ entryChain'[1] = state'.currentEntry]_vars

\* C28 witness: the first refresh loaded a chain, the second one ended in
\* error; the hook reports error together with the chain of the first load
C28_Witness ==
    /\ Len(calls) = 2
    /\ calls[1].pc = "done"
    /\ calls[2].pc = "done"
    /\ calls[1].end.state.status = "loaded"
    /\ state.status = "error"
    /\ entryChain # <<>>
    /\ entryChain = calls[1].end.entryChain
    /\ calls[2].end.before = calls[1].end.entryChain


(***************************************************************************)
(* The Verifier view: the registry the hook has loaded (inline layout) is  *)
(* compared with the registry.json found under a proposed CID.             *)
(***************************************************************************)
\* published entry lists: three that list version 1 twice, one that does not
VerifierEntryLists ==
    {<<Entry(2), AltEntry(1), Entry(1)>>, <<Entry(1), AltEntry(1)>>,
     <<AltEntry(1), Entry(2), Entry(1)>>, <<Entry(2), Entry(1)>>}

VerifierSites ==
    {RegistryPath :> Json(InlineManifest(es[1].version, es)) : es \in VerifierEntryLists}

\* what the proposed CID may hold: the loaded manifest, or the loaded manifest
\* with one entry changed in a compared field, dropped, or added
ProposedManifests(manifest) ==
    LET idx == 1..Len(manifest.entries) IN
    {manifest}
    \cup {[manifest EXCEPT !.entries[i].effective_date = d] : i \in idx, d \in Dates}
    \cup {[manifest EXCEPT !.entries[i].license.spdx = x] : i \in idx, x \in Spdx}
    \cup {[manifest EXCEPT !.entries[i].license.text_sha256 = h] : i \in idx, h \in Hashes}
    \cup {[manifest EXCEPT !.entries = RemoveAt(@, i)] : i \in idx}
    \cup {[manifest EXCEPT !.entries = <<Entry(v)>> \o @] : v \in Versions}
    \cup {[manifest EXCEPT !.entries =
                <<[Entry(v) EXCEPT !.license.text_sha256 = h], Entry(v)>> \o @] :
            v \in Versions, h \in Hashes}

InitVerifier ==
    /\ variant = "inline"
    /\ ensName = "license.eth"
    /\ contentRefOverride \in ContentRefOverrides
    /\ devCid = ""
    /\ site \in VerifierSites
    /\ state = Loading
    /\ entryChain = <<>>
    /\ contentRef = contentRefOverride
    /\ calls = <<>>
    /\ InitVerifyIdle
    /\ InitLibIdle
    /\ current = [none |-> TRUE]
    /\ proposed = [none |-> TRUE]
    /\ edits = 0
    /\ licenseFetch = <<>>
    /\ result = NoResult
    /\ InitFetchIdle

\* handleCompare: refuses unless the hook is loaded, then compares the loaded
\* manifest with the proposed one; a failed fetch of the proposed manifest
\* leaves result null
HandleCompare ==
    /\ state.status = "loaded"
    /\ result = NoResult
    /\ \E proposedManifest \in ProposedManifests(state.manifest) :
        \E outcomes \in [1..NumNew(state.manifest, proposedManifest) -> Outcomes] :
            /\ current' = state.manifest
            /\ proposed' = proposedManifest
            /\ licenseFetch' = outcomes
            /\ result' = CompareRegistries(state.manifest, proposedManifest, outcomes)
    /\ UNCHANGED edits
    /\ UNCHANGED <<fetchVars, hookVars>>

NextVerifier ==
    \/ InFlight = {} /\ FetchRegistryInline
    \/ \E c \in InFlight : ManifestArrivesInline(c)
    \/ HandleCompare

SpecVerifier == InitVerifier /\ [][NextVerifier]_vars


ListsVersionTwice(entries) ==
    \E i, j \in 1..Len(entries) : i < j /\ entries[i].version = entries[j].version

\* C30: compareRegistries compares, for every version, only the last
\* occurrence in array order on each side: what it reports as modified and
\* what it hash-checks are last occurrences, one per version, so an earlier
\* duplicate is neither reported nor hash-checked; the inline reconstructor
\* exposes the whole entries array as entryChain, duplicates included, with
\* entries[0] as currentEntry.
C30_LastDuplicateCompared ==
    result # NoResult =>
        LET cur == current.entries
            prop == proposed.entries
            modified == result.modifiedEntries
            hashChecks == SelectSeq(result.checks, LAMBDA k : StartsWithHash(k.id))
        IN /\ \A v \in VersionsOf(cur) \cap VersionsOf(prop) :
                LET reported == {i \in 1..Len(modified) : modified[i].old.version = v}
                IN /\ reported # {} <=> TrackedChanges(LastOf(cur, v), LastOf(prop, v)) # {}
                   /\ Cardinality(reported) <= 1
                   /\ \A i \in reported :
                        /\ modified[i].old = LastOf(cur, v)
                        /\ modified[i].new = LastOf(prop, v)
           /\ Len(hashChecks) = Cardinality(VersionsOf(prop) \ VersionsOf(cur))
           /\ Len(hashChecks) = Len(result.newEntries)
           /\ \A i \in 1..Len(hashChecks) :
                /\ hashChecks[i].id = HashCheckId(result.newEntries[i].version)
                /\ result.newEntries[i] = LastOf(prop, result.newEntries[i].version)
                /\ hashChecks[i].passed <=>
                     /\ licenseFetch[i] # "fetch_failed"
                     /\ VerifyHash(licenseFetch[i],
                                   LastOf(prop, result.newEntries[i].version).license.text_sha256)
           /\ state.status = "loaded" =>
                /\ state.manifest = current
                /\ entryChain = cur
                /\ state.currentEntry = cur[1]

\* a valid result although an earlier duplicate of the proposed manifest
\* differs in a compared field from the entry current holds for that version,
\* while entryChain shows the duplicates of the loaded manifest
C30_Witness ==
    /\ result # NoResult
    /\ result.valid
    /\ result.modifiedEntries = <<>>
    /\ \E i, j \in 1..Len(proposed.entries) :
        /\ i < j
        /\ proposed.entries[i].version = proposed.entries[j].version
        /\ proposed.entries[i].version \in VersionsOf(current.entries)
        /\ TrackedChanges(LastOf(current.entries, proposed.entries[i].version),
                          proposed.entries[i]) # {}
    /\ state.status = "loaded"
    /\ ListsVersionTwice(entryChain)
    /\ Len(entryChain) = Len(current.entries)
    /\ state.currentEntry = entryChain[1]

====
